---- MODULE Spec2Model ----
(***************************************************************************)
(* A model of arlo-e2e's content-addressed manifest (manifest.py) and of   *)
(* the tally publisher/loader built on it (publish.py).                    *)
(*                                                                         *)
(* Conventions.                                                            *)
(*  - A Python str is a sequence of symbols (TLA+ strings); a symbol is    *)
(*    one character or one indivisible run of characters (".json").        *)
(*  - Optional[X] is a sequence of length <= 1: None is << >> and a        *)
(*    present value x is <<x>>.                                            *)
(*  - A dict is the sequence of its items in insertion order, which is     *)
(*    the order Python iterates and serializes it in.                      *)
(*  - A PurePath is the sequence of its parts.                             *)
(*  - The text of a file is a record (see Text below) so that texts of     *)
(*    every kind are comparable.                                           *)
(*  - SHA-256 is taken to be collision-free: a digest is represented by    *)
(*    the text it digests.                                                 *)
(***************************************************************************)
EXTENDS Integers, Sequences, FiniteSets, TLC

VARIABLES
    files,      \* the file system: full path (parts) -> text of the file
    dirs,       \* the directories that exist (parts)
    mans,       \* the Manifest objects in memory, by identity
    ret,        \* what the last operation was and what it returned
    nops,       \* number of state-changing operations performed so far
    tampered,   \* TRUE once something other than the program changed a file
    jobs,       \* the writes each worker still has to do, and who was merged
    run         \* an application run: its input, its position, the resources
                \* it holds and its exit code

vars == <<files, dirs, mans, ret, nops, tampered, jobs, run>>

-----------------------------------------------------------------------------
(* Bounds of the model.                                                    *)

MaxOps == 3

\* Number of files the workers write between them.
MaxWrites == 3

-----------------------------------------------------------------------------
(* Generic helpers: Optional, sequences, dicts.                            *)

None == << >>

Some(x) == <<x>>

IsNone(o) == Len(o) = 0

Get(o) == o[1]

Range(s) == {s[i] : i \in 1..Len(s)}

RECURSIVE SumLens(_)
SumLens(ss) == IF ss = << >> THEN 0 ELSE Len(Head(ss)) + SumLens(Tail(ss))

RECURSIVE Flatten(_)
Flatten(ss) == IF ss = << >> THEN << >> ELSE Head(ss) \o Flatten(Tail(ss))

\* Python dict: d is a sequence of [key, value] items without repeated keys.
DictKeys(d) == {d[i].key : i \in 1..Len(d)}

DictHas(d, k) == \E i \in 1..Len(d) : d[i].key = k

DictGet(d, k) == d[CHOOSE i \in 1..Len(d) : d[i].key = k].value

\* d[k] = v: an existing key keeps its position, a new key goes last.
DictSet(d, k, v) ==
    IF DictHas(d, k)
    THEN [i \in 1..Len(d) |-> IF d[i].key = k THEN [key |-> k, value |-> v] ELSE d[i]]
    ELSE Append(d, [key |-> k, value |-> v])

\* The mapping a dict denotes, whatever its order (Python's dict ==).
DictMap(d) == [k \in DictKeys(d) |-> DictGet(d, k)]

-----------------------------------------------------------------------------
(* Strings and paths.                                                      *)

\* sep.join(parts)
RECURSIVE Join(_, _)
Join(parts, sep) ==
    IF parts = << >> THEN << >>
    ELSE IF Len(parts) = 1 THEN parts[1]
    ELSE parts[1] \o <<sep>> \o Join(Tail(parts), sep)

\* s.split(sep): always at least one (possibly empty) piece.
RECURSIVE SplitAcc(_, _, _)
SplitAcc(s, sep, cur) ==
    IF s = << >> THEN <<cur>>
    ELSE IF Head(s) = sep THEN <<cur>> \o SplitAcc(Tail(s), sep, << >>)
    ELSE SplitAcc(Tail(s), sep, Append(cur, Head(s)))

Split(s, sep) == SplitAcc(s, sep, << >>)

\* PurePath(*args).parts on a POSIX host: every argument is cut at "/" and
\* empty and "." pieces vanish (relative paths only).
PurePathParts(args) ==
    LET pieces == Flatten([i \in 1..Len(args) |-> Split(args[i], "/")])
    IN  SelectSeq(pieces, LAMBDA p : p # << >> /\ p # <<".">>)

\* utils.compose_filename: the concrete path of a file under root_dir.
compose_filename(root_dir, file_name, subdirectories) ==
    IF IsNone(subdirectories)
    THEN PurePathParts(<<root_dir, file_name>>)
    ELSE PurePathParts(<<root_dir>> \o Get(subdirectories) \o <<file_name>>)

compose_manifest_name(file_name, subdirectories) ==
    LET dirs_ == IF IsNone(subdirectories) THEN <<file_name>>
                 ELSE Get(subdirectories) \o <<file_name>>
    IN  Join(dirs_, "|")

\* manifest_name_to_filename: the manifest name itself is what the code
\* passes as root_dir of compose_filename.
manifest_name_to_filename(manifest_name) ==
    LET subdirs == Split(manifest_name, "|")
    IN  compose_filename(manifest_name, subdirs[Len(subdirs)],
                         Some(SubSeq(subdirs, 1, Len(subdirs) - 1)))

\* path_to_manifest_name: [raised, value]; raised is the failed assertion.
path_to_manifest_name(root_dir, path) ==
    LET elems == path IN
    IF elems[1] # root_dir
    THEN [raised |-> TRUE, value |-> << >>]
    ELSE [raised |-> FALSE,
          value |-> compose_manifest_name(elems[Len(elems)],
                                          Some(SubSeq(elems, 2, Len(elems) - 1)))]

-----------------------------------------------------------------------------
(* File texts, their UTF-8 length and their hash.                          *)

\* Number of UTF-8 bytes of one symbol.
Utf8Width(sym) ==
    CASE sym = "eacute" -> 2
      [] sym = ".json" -> 5
      [] sym = "MANIFEST" -> 8
      [] OTHER -> 1

RECURSIVE Utf8Len(_)
Utf8Len(s) == IF s = << >> THEN 0 ELSE Utf8Width(Head(s)) + Utf8Len(Tail(s))

\* base64 of a 32-byte digest is 44 characters long.
HashChars == 44

\* The value of a serializable object other than a manifest:
\*   name     its identifying string (a ballot's object_id)
\*   n        its number (a ballot's vote, a tally's count)
\*   members  the ballots a tally aggregates, by object_id
\*   ok       whether its proofs verify
Value(name, n, members, ok) == [name |-> name, n |-> n, members |-> members, ok |-> ok]

NoValue == Value(<< >>, 0, {}, TRUE)

\* A text is [cls, text, obj, hashes, bytes_written, ws]:
\*   cls            "text" for arbitrary text, else the class whose JSON it is
\*   text           the symbols of a plain text
\*   obj            the value of a serialized object
\*   hashes,
\*   bytes_written  the fields of a serialized ManifestExternal
\*   ws             insignificant JSON whitespace added to the canonical text
PlainText(s) ==
    [cls |-> "text", text |-> s, obj |-> NoValue, hashes |-> << >>,
     bytes_written |-> 0, ws |-> 0]

\* Serializable.to_json of an object of class cls.
to_json(cls, obj) ==
    [cls |-> cls, text |-> << >>, obj |-> obj, hashes |-> << >>,
     bytes_written |-> 0, ws |-> 0]

RECURSIVE KeyChars(_)
KeyChars(d) == IF d = << >> THEN 0 ELSE Utf8Len(Head(d).key) + KeyChars(Tail(d))

\* len(file_contents.encode("utf-8"))
NumBytes(c) ==
    IF c.cls = "ManifestExternal"
    THEN 2 + KeyChars(c.hashes) + Len(c.hashes) * (HashChars + 1) + 1 + c.ws
    ELSE IF c.cls = "text" THEN Utf8Len(c.text) + c.ws
    ELSE 2 + Utf8Len(c.obj.name) + 1 + Cardinality(c.obj.members) + c.ws

sha256_hash(input) == [sha256 |-> input]

FileInfo(h, n) == [hash |-> h, num_bytes |-> n]

-----------------------------------------------------------------------------
(* The Manifest class.                                                     *)

Manifest(root_dir, hashes, bytes_written) ==
    [root_dir |-> root_dir, hashes |-> hashes, bytes_written |-> bytes_written]

make_fresh_manifest(root_dir) == Manifest(root_dir, << >>, 0)

\* all_hashes_unique counting the distinct lengths instead of the hashes.
all_hashes_unique_by_length(self) ==
    LET expected_num_hashes == Cardinality(DictKeys(self.hashes))
        actual_num_hashes ==
            Cardinality({self.hashes[i].value.num_bytes : i \in 1..Len(self.hashes)})
    IN  expected_num_hashes = actual_num_hashes

\* Manifest.all_hashes_unique: the bool it returns.
all_hashes_unique(self) ==
    LET expected_num_hashes == Cardinality(DictKeys(self.hashes))
        actual_num_hashes ==
            Cardinality({self.hashes[i].value.hash : i \in 1..Len(self.hashes)})
    IN  IF expected_num_hashes # actual_num_hashes THEN FALSE ELSE TRUE

\* ManifestExternal(self.hashes).to_json(): bytes_written left at its default.
to_manifest_external_json_default_bytes(self) ==
    [cls |-> "ManifestExternal", text |-> << >>, obj |-> NoValue,
     hashes |-> self.hashes, bytes_written |-> 0, ws |-> 0]

\* ManifestExternal(self.hashes, self.bytes_written).to_json()
to_manifest_external_json(self) ==
    [cls |-> "ManifestExternal", text |-> << >>, obj |-> NoValue,
     hashes |-> self.hashes, bytes_written |-> self.bytes_written, ws |-> 0]

\* mkdir_list_helper: root_dir and every prefix of the subdirectories exist
\* afterwards.
mkdir_list_helper(ds, root_dir, subdirectories) ==
    LET base == PurePathParts(<<root_dir>>)
        subs == PurePathParts(subdirectories)
    IN  ds \cup {base \o SubSeq(subs, 1, k) : k \in 0..Len(subs)}

\* with open(full_name, WRITE) as f: f.write(file_contents)
WriteToDisk(fs, full_name, file_contents) ==
    [p \in (DOMAIN fs) \cup {full_name} |->
        IF p = full_name THEN file_contents ELSE fs[p]]

\* write_file that keeps the entry already recorded for the name.
write_file_keep_first(self, fs, ds, file_name, file_contents, subdirectories_) ==
    LET subdirectories == IF IsNone(subdirectories_) THEN << >>
                          ELSE Get(subdirectories_)
        manifest_name == compose_manifest_name(file_name, Some(subdirectories))
        full_name == compose_filename(self.root_dir, file_name, Some(subdirectories))
        file_info == FileInfo(sha256_hash(file_contents), NumBytes(file_contents))
    IN  [self |-> Manifest(self.root_dir,
                           IF DictHas(self.hashes, manifest_name) THEN self.hashes
                           ELSE DictSet(self.hashes, manifest_name, file_info),
                           self.bytes_written + file_info.num_bytes),
         files |-> WriteToDisk(fs, full_name, file_contents),
         dirs |-> mkdir_list_helper(ds, self.root_dir, subdirectories),
         warned |-> DictHas(self.hashes, manifest_name),
         result |-> file_info.hash]

\* write_file that counts the bytes of a name only the first time it is
\* written.
write_file_counts_new_names(self, fs, ds, file_name, file_contents, subdirectories_) ==
    LET subdirectories == IF IsNone(subdirectories_) THEN << >>
                          ELSE Get(subdirectories_)
        manifest_name == compose_manifest_name(file_name, Some(subdirectories))
        full_name == compose_filename(self.root_dir, file_name, Some(subdirectories))
        file_info == FileInfo(sha256_hash(file_contents), NumBytes(file_contents))
    IN  [self |-> Manifest(self.root_dir,
                           DictSet(self.hashes, manifest_name, file_info),
                           IF DictHas(self.hashes, manifest_name)
                           THEN self.bytes_written
                           ELSE self.bytes_written + file_info.num_bytes),
         files |-> WriteToDisk(fs, full_name, file_contents),
         dirs |-> mkdir_list_helper(ds, self.root_dir, subdirectories),
         warned |-> DictHas(self.hashes, manifest_name),
         result |-> file_info.hash]

\* Manifest.write_file: the new manifest, file system, directories and the
\* value returned. It has no failing path.
write_file(self, fs, ds, file_name, file_contents, subdirectories_) ==
    LET subdirectories == IF IsNone(subdirectories_) THEN << >>
                          ELSE Get(subdirectories_)
        manifest_name == compose_manifest_name(file_name, Some(subdirectories))
        h == sha256_hash(file_contents)
        file_content_bytes == NumBytes(file_contents)
        full_name == compose_filename(self.root_dir, file_name, Some(subdirectories))
        file_info == FileInfo(h, file_content_bytes)
    IN  [self |-> Manifest(self.root_dir,
                           DictSet(self.hashes, manifest_name, file_info),
                           self.bytes_written + file_info.num_bytes),
         files |-> WriteToDisk(fs, full_name, file_contents),
         dirs |-> mkdir_list_helper(ds, self.root_dir, subdirectories),
         warned |-> DictHas(self.hashes, manifest_name),
         result |-> file_info.hash]

\* Manifest.write_json_file, given the JSON text of content_obj.
write_json_file(self, fs, ds, file_name, json_txt, subdirectories) ==
    write_file(self, fs, ds, file_name, json_txt, subdirectories)

MANIFEST_JSON == <<"MANIFEST", ".json">>

\* Manifest.write_manifest
write_manifest(self, fs, ds) ==
    write_json_file(self, fs, ds, MANIFEST_JSON,
                    to_manifest_external_json(self), Some(<< >>))

\* merge_from with self.bytes_written = other.bytes_written for +=.
merge_from_bytes_assigned(self, other) ==
    IF other.root_dir # self.root_dir
    THEN [raised |-> "AssertionError", self |-> self]
    ELSE LET shared_keys == DictKeys(self.hashes) \cap DictKeys(other.hashes)
             copied[i \in 0..Len(other.hashes)] ==
                 IF i = 0 THEN self.hashes
                 ELSE DictSet(copied[i - 1], other.hashes[i].key, other.hashes[i].value)
         IN  IF \E k \in shared_keys : DictGet(self.hashes, k) # DictGet(other.hashes, k)
             THEN [raised |-> "RuntimeError", self |-> self]
             ELSE [raised |-> "",
                   self |-> Manifest(self.root_dir, copied[Len(other.hashes)],
                                     other.bytes_written)]

\* merge_from without the check of the shared keys.
merge_from_unchecked(self, other) ==
    IF other.root_dir # self.root_dir
    THEN [raised |-> "AssertionError", self |-> self]
    ELSE LET copied[i \in 0..Len(other.hashes)] ==
                 IF i = 0 THEN self.hashes
                 ELSE DictSet(copied[i - 1], other.hashes[i].key, other.hashes[i].value)
         IN  [raised |-> "",
              self |-> Manifest(self.root_dir, copied[Len(other.hashes)],
                                self.bytes_written + other.bytes_written)]

\* merge_from that copies the entries of other before it compares the
\* shared ones.
merge_from_copies_first(self, other) ==
    IF other.root_dir # self.root_dir
    THEN [raised |-> "AssertionError", self |-> self]
    ELSE LET shared_keys == DictKeys(self.hashes) \cap DictKeys(other.hashes)
             copied[i \in 0..Len(other.hashes)] ==
                 IF i = 0 THEN self.hashes
                 ELSE DictSet(copied[i - 1], other.hashes[i].key, other.hashes[i].value)
         IN  IF \E k \in shared_keys : DictGet(self.hashes, k) # DictGet(other.hashes, k)
             THEN [raised |-> "RuntimeError",
                   self |-> Manifest(self.root_dir, copied[Len(other.hashes)],
                                     self.bytes_written)]
             ELSE [raised |-> "",
                   self |-> Manifest(self.root_dir, copied[Len(other.hashes)],
                                     self.bytes_written + other.bytes_written)]

\* Manifest.merge_from: [raised, self]; raised is "" on success.
merge_from(self, other) ==
    IF other.root_dir # self.root_dir
    THEN [raised |-> "AssertionError", self |-> self]
    ELSE
    LET self_keys == DictKeys(self.hashes)
        other_keys == DictKeys(other.hashes)
        shared_keys == self_keys \cap other_keys
        \* for k in other_keys: self.hashes[k] = other.hashes[k]
        copied[i \in 0..Len(other.hashes)] ==
            IF i = 0 THEN self.hashes
            ELSE DictSet(copied[i - 1], other.hashes[i].key, other.hashes[i].value)
    IN  IF \E k \in shared_keys : DictGet(self.hashes, k) # DictGet(other.hashes, k)
        THEN [raised |-> "RuntimeError", self |-> self]
        ELSE [raised |-> "",
              self |-> Manifest(self.root_dir, copied[Len(other.hashes)],
                                self.bytes_written + other.bytes_written)]

\* utils.load_file_helper: the text of the file, or None if it is not there.
load_file_helper(fs, full_name) ==
    IF full_name \in DOMAIN fs THEN Some(fs[full_name]) ELSE None

\* validate_contents without the comparison of hashes.
validate_contents_length_only(self, manifest_file_name, file_contents) ==
    /\ DictHas(self.hashes, manifest_file_name)
    /\ NumBytes(file_contents) = DictGet(self.hashes, manifest_file_name).num_bytes

\* Manifest.validate_contents
validate_contents(self, manifest_file_name, file_contents) ==
    IF ~DictHas(self.hashes, manifest_file_name) THEN FALSE
    ELSE LET file_info == DictGet(self.hashes, manifest_file_name)
             file_len == NumBytes(file_contents)
         IN  IF file_len # file_info.num_bytes THEN FALSE
             ELSE IF sha256_hash(file_contents) # file_info.hash THEN FALSE
             ELSE TRUE

\* Manifest.read_file with a str file_name: [raised, value]; value is the
\* Optional[str] returned.
read_file(self, fs, file_name, subdirectories) ==
    LET full_name == compose_filename(self.root_dir, file_name, subdirectories)
        manifest_name == path_to_manifest_name(self.root_dir, full_name)
        file_contents == load_file_helper(fs, full_name)
    IN  IF manifest_name.raised THEN [raised |-> TRUE, value |-> None]
        ELSE IF ~IsNone(file_contents)
                /\ validate_contents(self, manifest_name.value, Get(file_contents))
        THEN [raised |-> FALSE, value |-> file_contents]
        ELSE [raised |-> FALSE, value |-> None]

\* utils.decode_json_file_contents: the object the JSON text denotes, if it
\* is JSON of the class asked for. Whitespace in the text is not part of the
\* object.
decode_json_file_contents(json_str, class_handle) ==
    IF json_str.cls = class_handle
    THEN Some([obj |-> json_str.obj, hashes |-> json_str.hashes,
               bytes_written |-> json_str.bytes_written])
    ELSE None

\* utils.load_json_helper: read and decode, with no manifest involved.
load_json_helper(fs, root_dir, file_name, class_handle, subdirectories) ==
    LET file_contents ==
            load_file_helper(fs, compose_filename(root_dir, file_name, subdirectories))
    IN  IF IsNone(file_contents) THEN None
        ELSE decode_json_file_contents(Get(file_contents), class_handle)

\* read_json_file that trusts the file without looking at the manifest.
read_json_file_unvalidated(self, fs, file_name, class_handle, subdirectories) ==
    [raised |-> FALSE,
     value |-> load_json_helper(fs, self.root_dir, file_name, class_handle,
                                subdirectories)]

\* Manifest.read_json_file: [raised, value].
read_json_file(self, fs, file_name, class_handle, subdirectories) ==
    LET file_contents == read_file(self, fs, file_name, subdirectories)
    IN  IF file_contents.raised THEN [raised |-> TRUE, value |-> None]
        ELSE IF IsNone(file_contents.value) THEN [raised |-> FALSE, value |-> None]
        ELSE [raised |-> FALSE,
              value |-> decode_json_file_contents(Get(file_contents.value),
                                                  class_handle)]

\* Manifest.write_ciphertext_ballot: as write_file.
write_ciphertext_ballot(self, fs, ds, ballot) ==
    LET ballot_name == ballot.name
        ballot_name_prefix ==
            SubSeq(ballot_name, 1, IF Len(ballot_name) < 4 THEN Len(ballot_name) ELSE 4)
    IN  write_json_file(self, fs, ds, ballot_name \o <<".json">>,
                        to_json("CiphertextAcceptedBallot", ballot),
                        Some(<<(<<"ballots">>), ballot_name_prefix>>))

\* load_ciphertext_ballot that takes the whole identifier for the prefix.
load_ciphertext_ballot_unsliced(self, fs, ballot_id) ==
    read_json_file(self, fs, ballot_id \o <<".json">>, "CiphertextAcceptedBallot",
                   Some(<<(<<"ballots">>), ballot_id>>))

\* Manifest.load_ciphertext_ballot: [raised, value].
load_ciphertext_ballot(self, fs, ballot_id) ==
    LET ballot_name_prefix ==
            SubSeq(ballot_id, 1, IF Len(ballot_id) < 4 THEN Len(ballot_id) ELSE 4)
    IN  read_json_file(self, fs, ballot_id \o <<".json">>, "CiphertextAcceptedBallot",
                       Some(<<(<<"ballots">>), ballot_name_prefix>>))

\* make_existing_manifest: Optional[Manifest] read from MANIFEST.json.
make_existing_manifest(fs, root_dir) ==
    LET manifest_ex == load_json_helper(fs, root_dir, MANIFEST_JSON,
                                        "ManifestExternal", None)
    IN  IF IsNone(manifest_ex) THEN None
        ELSE Some(Manifest(root_dir, Get(manifest_ex).hashes,
                           Get(manifest_ex).bytes_written))

-----------------------------------------------------------------------------
(* publish.py: writing a tally to a results directory and loading it back. *)

ELECTION_METADATA == <<"election_metadata", ".json">>

ELECTION_DESCRIPTION == <<"election_description", ".json">>

ENCRYPTED_TALLY == <<"encrypted_tally", ".json">>

CRYPTO_CONSTANTS == <<"constants", ".json">>

CRYPTO_CONTEXT == <<"cryptographic_context", ".json">>

\* ElectionConstants(): the group constants of the library in use.
ElectionConstants == Value(<<"constants">>, 0, {}, TRUE)

\* ballot_name[0:4]
BallotPrefix(ballot_name) ==
    SubSeq(ballot_name, 1, IF Len(ballot_name) < 4 THEN Len(ballot_name) ELSE 4)

\* manifest.write_json_file(...) as a statement of write_fast_tally: st is
\* [self, files, dirs, log], the manifest and the file system before and
\* after, and the files written so far, in order.
write_json(st, file_name, json_txt, subdirectories) ==
    LET w == write_json_file(st.self, st.files, st.dirs, file_name, json_txt,
                             subdirectories)
    IN  [self |-> w.self, files |-> w.files, dirs |-> w.dirs,
         log |-> Append(st.log, compose_filename(w.self.root_dir, file_name,
                                                 subdirectories))]

\* manifest.write_manifest() as a statement of write_fast_tally.
seal(st) ==
    LET w == write_manifest(st.self, st.files, st.dirs)
    IN  [self |-> w.self, files |-> w.files, dirs |-> w.dirs,
         log |-> Append(st.log, compose_filename(w.self.root_dir, MANIFEST_JSON,
                                                 Some(<< >>)))]

\* The loop of write_fast_tally over results.encrypted_ballots.
RECURSIVE write_ballots(_, _)
write_ballots(st, ballots) ==
    IF ballots = << >> THEN st
    ELSE LET ballot == Head(ballots)
             ballot_name == ballot.name
             ballot_name_prefix == BallotPrefix(ballot_name)
         IN  write_ballots(
                 write_json(st, ballot_name \o <<".json">>,
                            to_json("CiphertextAcceptedBallot", ballot),
                            Some(<<(<<"ballots">>), ballot_name_prefix>>)),
                 Tail(ballots))

\* write_fast_tally that writes MANIFEST.json before the ballots.
write_fast_tally_seal_first(fs, ds, results, results_dir) ==
    LET dir == PurePathParts(<<results_dir>>)
        ds0 == IF dir \in ds THEN ds ELSE ds \cup {dir}
        st0 == [self |-> make_fresh_manifest(results_dir), files |-> fs, dirs |-> ds0,
                log |-> << >>]
        st1 == write_json(st0, ELECTION_DESCRIPTION,
                  to_json("ElectionDescription", results.election_description), None)
        st2 == write_json(st1, CRYPTO_CONTEXT,
                  to_json("CiphertextElectionContext", results.context), None)
        st3 == write_json(st2, CRYPTO_CONSTANTS,
                  to_json("ElectionConstants", ElectionConstants), None)
        st4 == write_json(st3, ENCRYPTED_TALLY,
                  to_json("SelectionTally", results.tally), None)
        st5 == write_json(st4, ELECTION_METADATA,
                  to_json("ElectionMetadata", results.metadata), None)
    IN  write_ballots(seal(st5), results.encrypted_ballots)

\* write_fast_tally: the file system and directories it leaves, the manifest
\* it sealed and the files it wrote, in order.
write_fast_tally(fs, ds, results, results_dir) ==
    LET dir == PurePathParts(<<results_dir>>)
        ds0 == IF dir \in ds THEN ds ELSE ds \cup {dir}
        st0 == [self |-> make_fresh_manifest(results_dir), files |-> fs, dirs |-> ds0,
                log |-> << >>]
        st1 == write_json(st0, ELECTION_DESCRIPTION,
                  to_json("ElectionDescription", results.election_description), None)
        st2 == write_json(st1, CRYPTO_CONTEXT,
                  to_json("CiphertextElectionContext", results.context), None)
        st3 == write_json(st2, CRYPTO_CONSTANTS,
                  to_json("ElectionConstants", ElectionConstants), None)
        st4 == write_json(st3, ENCRYPTED_TALLY,
                  to_json("SelectionTally", results.tally), None)
        st5 == write_json(st4, ELECTION_METADATA,
                  to_json("ElectionMetadata", results.metadata), None)
    IN  seal(write_ballots(st5, results.encrypted_ballots))

\* utils.all_files_in_directory: the files anywhere below a directory, each
\* as the string os.path.join gives.
all_files_in_directory(fs, root_dir) ==
    LET top == PurePathParts(<<root_dir>>)
    IN  {Join(q, "/") : q \in {q \in DOMAIN fs :
            Len(q) > Len(top) /\ SubSeq(q, 1, Len(top)) = top}}

RECURSIVE SumVotes(_, _)
SumVotes(ballots, S) ==
    IF S = {} THEN 0
    ELSE LET x == CHOOSE x \in S : TRUE
         IN  ballots[x].n + SumVotes(ballots, S \ {x})

\* FastTallyEverythingResults.all_proofs_valid, rechecking ballots and tally:
\* every ballot's proofs verify and the tally is the aggregate of exactly
\* these ballots, decrypting to their sum.
all_proofs_valid(everything) ==
    LET ballots == everything.encrypted_ballots
    IN  /\ \A b \in DOMAIN ballots : ballots[b].ok
        /\ everything.tally.ok
        /\ everything.tally.members = {ballots[b].name : b \in DOMAIN ballots}
        /\ Cardinality(everything.tally.members) = Cardinality(DOMAIN ballots)
        /\ everything.tally.n = SumVotes(ballots, DOMAIN ballots)

\* The elements of a finite set, as a list in some order.
RECURSIVE SetToSeq(_)
SetToSeq(S) ==
    IF S = {} THEN << >>
    ELSE LET x == CHOOSE x \in S : TRUE IN <<x>> \o SetToSeq(S \ {x})

\* A comparison of the constants that accepts any.
constants_any(constants) == TRUE

\* constants != ElectionConstants(), negated.
constants_match(constants) == constants = ElectionConstants

\* load_fast_tally: [raised, value, log]; value is the Optional result, log
\* the files it read, in order.
load_fast_tally(fs, ds, results_dir, check_proofs) ==
    LET order == <<MANIFEST_JSON, ELECTION_DESCRIPTION, CRYPTO_CONSTANTS,
                   CRYPTO_CONTEXT, ENCRYPTED_TALLY, ELECTION_METADATA>>
        Reads(k) == [i \in 1..k |-> compose_filename(results_dir, order[i], None)]
        Fail(k) == [raised |-> FALSE, value |-> None, log |-> Reads(k)]
        Raise(k) == [raised |-> TRUE, value |-> None, log |-> Reads(k)]
        manifest_ == make_existing_manifest(fs, results_dir)
        manifest == Get(manifest_)
        election_description ==
            read_json_file(manifest, fs, ELECTION_DESCRIPTION, "ElectionDescription", None)
        constants ==
            read_json_file(manifest, fs, CRYPTO_CONSTANTS, "ElectionConstants", None)
        cec ==
            read_json_file(manifest, fs, CRYPTO_CONTEXT, "CiphertextElectionContext", None)
        encrypted_tally ==
            read_json_file(manifest, fs, ENCRYPTED_TALLY, "SelectionTally", None)
        metadata ==
            read_json_file(manifest, fs, ELECTION_METADATA, "ElectionMetadata", None)
        ballots_dir == Join(<<results_dir, <<"ballots">> >>, "/")
        ballot_files == all_files_in_directory(fs, ballots_dir)
        encrypted_ballots ==
            [f \in ballot_files |->
                load_json_helper(fs, <<".">>, f, "CiphertextAcceptedBallot", None)]
        all_reads ==
            Reads(6) \o [i \in 1..Cardinality(ballot_files) |->
                            compose_filename(<<".">>, SetToSeq(ballot_files)[i], None)]
        everything ==
            [metadata |-> Get(metadata.value).obj,
             election_description |-> Get(election_description.value).obj,
             encrypted_ballots |->
                [f \in ballot_files |-> Get(encrypted_ballots[f]).obj],
             tally |-> Get(encrypted_tally.value).obj,
             context |-> Get(cec.value).obj]
    IN  IF PurePathParts(<<results_dir>>) \notin ds THEN Fail(0)
        ELSE IF IsNone(manifest_) THEN Fail(1)
        ELSE IF election_description.raised THEN Raise(2)
        ELSE IF IsNone(election_description.value) THEN Fail(2)
        ELSE IF constants.raised THEN Raise(3)
        ELSE IF IsNone(constants.value) THEN Fail(3)
        ELSE IF ~constants_match(Get(constants.value).obj) THEN Fail(3)
        ELSE IF cec.raised THEN Raise(4)
        ELSE IF IsNone(cec.value) THEN Fail(4)
        ELSE IF encrypted_tally.raised THEN Raise(5)
        ELSE IF IsNone(encrypted_tally.value) THEN Fail(5)
        ELSE IF metadata.raised THEN Raise(6)
        ELSE IF IsNone(metadata.value) THEN Fail(6)
        ELSE IF \E f \in ballot_files : IsNone(encrypted_ballots[f])
             THEN [raised |-> FALSE, value |-> None, log |-> all_reads]
        ELSE IF check_proofs /\ ~all_proofs_valid(everything)
             THEN [raised |-> FALSE, value |-> None, log |-> all_reads]
        ELSE [raised |-> FALSE, value |-> Some(everything), log |-> all_reads]

-----------------------------------------------------------------------------
(* Manifests in use: two Manifest objects A and B, as two workers or a     *)
(* worker and a coordinator hold them, writing, merging, sealing and       *)
(* reading under their roots while files may also be altered from outside. *)

ManifestIds == {"A", "B"}

R1 == <<"r1">>

R2 == <<"r2">>

\* The files the manifests are asked to write and read: one at the root, one
\* in a subdirectory.
FileArgs ==
    {[file_name |-> <<"x", ".json">>, subdirectories |-> None],
     [file_name |-> <<"y">>, subdirectories |-> Some(<<(<<"d">>)>>)]}

\* Texts written: the empty text, and "eacute" and "ab", which have the same
\* number of bytes and not the same number of characters.
Texts == {PlainText(<< >>), PlainText(<<"eacute">>), PlainText(<<"a", "b">>)}

NoFiles == [p \in {} |-> PlainText(<< >>)]

\* What an operation leaves in ret: the operation and its arguments (self,
\* other, file_name, subdirectories, text, results, check_proofs), the entry the name
\* had before (prior), the exception raised ("" if none), the value returned
\* and the files the operation wrote or read, in order (log).
NoRet ==
    [op |-> "", self |-> "", other |-> "", file_name |-> << >>,
     subdirectories |-> None, text |-> None, results |-> None,
     check_proofs |-> FALSE,
     prior |-> None, raised |-> "", value |-> None, log |-> << >>]

NoJobs == [todo |-> << >>, merged |-> {}]

\* No application is running.
NoRun == [pc |-> "", input |-> << >>, i |-> 0, held |-> {}, exit_code |-> None]

Init ==
    /\ files = NoFiles
    /\ dirs = {}
    /\ \E r \in {R1, R2} :
          mans = [m \in ManifestIds |->
                    make_fresh_manifest(IF m = "A" THEN R1 ELSE r)]
    /\ ret = NoRet
    /\ nops = 0
    /\ tampered = FALSE
    /\ jobs = NoJobs
    /\ run = NoRun

\* The entry recorded for a name, as an Optional.
EntryOf(self, manifest_name) ==
    IF DictHas(self.hashes, manifest_name)
    THEN Some(DictGet(self.hashes, manifest_name)) ELSE None

WriteFile(m, a, t) ==
    LET w == write_file(mans[m], files, dirs, a.file_name, t, a.subdirectories)
    IN  /\ nops < MaxOps
        /\ mans' = [mans EXCEPT ![m] = w.self]
        /\ files' = w.files
        /\ dirs' = w.dirs
        /\ ret' = [NoRet EXCEPT
                      !.op = "write_file", !.self = m, !.file_name = a.file_name,
                      !.subdirectories = a.subdirectories, !.text = Some(t),
                      !.prior = EntryOf(mans[m], compose_manifest_name(a.file_name,
                                                                     a.subdirectories))]
        /\ nops' = nops + 1
        /\ UNCHANGED <<tampered, jobs, run>>

WriteManifest(m) ==
    LET w == write_manifest(mans[m], files, dirs)
    IN  /\ nops < MaxOps
        /\ mans' = [mans EXCEPT ![m] = w.self]
        /\ files' = w.files
        /\ dirs' = w.dirs
        /\ ret' = [NoRet EXCEPT
                      !.op = "write_manifest", !.self = m, !.file_name = MANIFEST_JSON,
                      !.subdirectories = Some(<< >>),
                      !.text = Some(to_manifest_external_json(mans[m])),
                      !.prior = EntryOf(mans[m], compose_manifest_name(MANIFEST_JSON,
                                                                     Some(<< >>)))]
        /\ nops' = nops + 1
        /\ UNCHANGED <<tampered, jobs, run>>

MergeFrom(m, o) ==
    LET r == merge_from(mans[m], mans[o])
    IN  /\ nops < MaxOps
        /\ m # o
        /\ mans' = [mans EXCEPT ![m] = r.self]
        /\ ret' = [NoRet EXCEPT !.op = "merge_from", !.self = m, !.other = o,
                                  !.raised = r.raised]
        /\ nops' = nops + 1
        /\ UNCHANGED <<files, dirs, tampered, jobs, run>>

ReadFile(m, a) ==
    LET r == read_file(mans[m], files, a.file_name, a.subdirectories)
    IN  /\ ret' = [NoRet EXCEPT
                      !.op = "read_file", !.self = m, !.file_name = a.file_name,
                      !.subdirectories = a.subdirectories,
                      !.raised = IF r.raised THEN "AssertionError" ELSE "",
                      !.value = r.value]
        /\ UNCHANGED <<files, dirs, mans, nops, tampered, jobs, run>>

AllHashesUnique(m) ==
    /\ ret' = [NoRet EXCEPT !.op = "all_hashes_unique", !.self = m,
                            !.value = Some(all_hashes_unique(mans[m]))]
    /\ UNCHANGED <<files, dirs, mans, nops, tampered, jobs, run>>

\* Someone other than the program replaces the bytes of an existing file.
AlterFile(p, t) ==
    /\ nops < MaxOps
    /\ p \in DOMAIN files
    /\ files[p] # t
    /\ files' = [files EXCEPT ![p] = t]
    /\ ret' = NoRet
    /\ nops' = nops + 1
    /\ tampered' = TRUE
    /\ UNCHANGED <<dirs, mans, jobs, run>>

\* Someone other than the program deletes a file.
RemoveFile(p) ==
    /\ nops < MaxOps
    /\ p \in DOMAIN files
    /\ files' = [q \in (DOMAIN files) \ {p} |-> files[q]]
    /\ ret' = NoRet
    /\ nops' = nops + 1
    /\ tampered' = TRUE
    /\ UNCHANGED <<dirs, mans, jobs, run>>

Next ==
    \/ \E m \in ManifestIds, a \in FileArgs, t \in Texts : WriteFile(m, a, t)
    \/ \E m \in ManifestIds : WriteManifest(m)
    \/ \E m, o \in ManifestIds : MergeFrom(m, o)
    \/ \E m \in ManifestIds, a \in FileArgs : ReadFile(m, a)
    \/ \E m \in ManifestIds : AllHashesUnique(m)
    \/ \E p \in DOMAIN files, t \in Texts : AlterFile(p, t)
    \/ \E p \in DOMAIN files : RemoveFile(p)

Spec == Init /\ [][Next]_vars

-----------------------------------------------------------------------------
(* A distributed run: each worker writes its share of the files through a  *)
(* private manifest on the common root, in any interleaving; when a worker *)
(* is done the coordinator merges the worker's manifest into its own.      *)

Workers == {"W1", "W2"}

\* The files of a run, with pairwise distinct logical names.
WriteArgs ==
    <<[file_name |-> <<"x", ".json">>, subdirectories |-> None],
      [file_name |-> <<"y">>, subdirectories |-> Some(<<(<<"d">>)>>)],
      [file_name |-> <<"z">>, subdirectories |-> Some(<<(<<"d">>)>>)],
      [file_name |-> <<"y">>, subdirectories |-> Some(<<(<<"e">>)>>)],
      [file_name |-> <<"z">>, subdirectories |-> Some(<<(<<"e">>)>>)]>>

WorkerTexts == {PlainText(<<"a">>), PlainText(<<"eacute">>)}

\* jobs.todo[i] is <<w, t>>: write i, of text t, is worker w's and not yet
\* done; << >> once it is done.
InitWorkers ==
    /\ files = NoFiles
    /\ dirs = {}
    /\ mans = [m \in Workers \cup {"C"} |-> make_fresh_manifest(R1)]
    /\ ret = NoRet
    /\ nops = 0
    /\ tampered = FALSE
    /\ \E who \in [1..MaxWrites -> Workers], what \in [1..MaxWrites -> WorkerTexts] :
          jobs = [todo |-> [i \in 1..MaxWrites |-> <<who[i], what[i]>>], merged |-> {}]
    /\ run = NoRun

WorkerDone(w) ==
    \A i \in 1..MaxWrites : IF jobs.todo[i] = << >> THEN TRUE ELSE jobs.todo[i][1] # w

\* Worker w performs one of its writes.
WorkerWrite(w, i) ==
    /\ jobs.todo[i] # << >>
    /\ jobs.todo[i][1] = w
    /\ LET a == WriteArgs[i]
           t == jobs.todo[i][2]
           r == write_file(mans[w], files, dirs, a.file_name, t, a.subdirectories)
       IN  /\ mans' = [mans EXCEPT ![w] = r.self]
           /\ files' = r.files
           /\ dirs' = r.dirs
           /\ ret' = [NoRet EXCEPT
                         !.op = "write_file", !.self = w, !.file_name = a.file_name,
                         !.subdirectories = a.subdirectories, !.text = Some(t)]
    /\ jobs' = [jobs EXCEPT !.todo[i] = << >>]
    /\ nops' = nops + 1
    /\ UNCHANGED <<tampered, run>>

\* The coordinator merges the manifest of a worker that is done.
CoordinatorMerge(w) ==
    /\ WorkerDone(w)
    /\ w \notin jobs.merged
    /\ LET r == merge_from(mans["C"], mans[w])
       IN  /\ mans' = [mans EXCEPT !["C"] = r.self]
           /\ ret' = [NoRet EXCEPT !.op = "merge_from", !.self = "C", !.other = w,
                                     !.raised = r.raised]
    /\ jobs' = [jobs EXCEPT !.merged = @ \cup {w}]
    /\ nops' = nops + 1
    /\ UNCHANGED <<files, dirs, tampered, run>>

NextWorkers ==
    \/ \E w \in Workers, i \in 1..MaxWrites : WorkerWrite(w, i)
    \/ \E w \in Workers : CoordinatorMerge(w)

SpecWorkers == InitWorkers /\ [][NextWorkers]_vars

-----------------------------------------------------------------------------
(* Tallies published and loaded: write_fast_tally and load_fast_tally on   *)
(* the results directory R1, which starts out absent, while files of the   *)
(* directory may be altered, removed and added from outside.               *)

B1 == <<"b", "0", "0", "0", "1">>

B2 == <<"b", "0", "0", "0", "2">>

B3 == <<"b", "0", "1", "0", "3">>

\* An encrypted ballot with valid proofs: its object_id and the vote inside.
Ballot(id) == Value(id, IF id = B2 THEN 0 ELSE 1, {}, TRUE)

RECURSIVE SeqSum(_)
SeqSum(ballots) == IF ballots = << >> THEN 0 ELSE Head(ballots).n + SeqSum(Tail(ballots))

\* The FastTallyEverythingResults of a tally of the given ballots.
Results(ballots) ==
    [metadata |-> Value(<<"metadata">>, 0, {}, TRUE),
     election_description |-> Value(<<"description">>, 0, {}, TRUE),
     encrypted_ballots |-> ballots,
     tally |-> Value(<<"tally">>, SeqSum(ballots), {b.name : b \in Range(ballots)}, TRUE),
     context |-> Value(<<"context">>, 0, {}, TRUE)]

TallyResults == {Results(<<Ballot(B1), Ballot(B2)>>), Results(<<Ballot(B1)>>)}

InitTally ==
    /\ files = NoFiles
    /\ dirs = {}
    /\ mans = [m \in {} |-> make_fresh_manifest(R1)]
    /\ ret = NoRet
    /\ nops = 0
    /\ tampered = FALSE
    /\ jobs = NoJobs
    /\ run = NoRun

WriteFastTally(results) ==
    LET w == write_fast_tally(files, dirs, results, R1)
    IN  /\ nops < MaxOps
        /\ files' = w.files
        /\ dirs' = w.dirs
        /\ ret' = [NoRet EXCEPT !.op = "write_fast_tally", !.results = Some(results),
                                  !.log = w.log]
        /\ nops' = nops + 1
        /\ UNCHANGED <<mans, tampered, jobs, run>>

LoadFastTally(check_proofs) ==
    LET r == load_fast_tally(files, dirs, R1, check_proofs)
    IN  /\ ret' = [NoRet EXCEPT
                      !.op = "load_fast_tally", !.check_proofs = check_proofs,
                      !.raised = IF r.raised THEN "AssertionError" ELSE "",
                      !.value = r.value, !.log = r.log]
        /\ UNCHANGED <<files, dirs, mans, nops, tampered, jobs, run>>

\* What the bytes of a file may be changed into: garbage; the same JSON with
\* other whitespace; JSON of the same length for another object; a manifest
\* with one entry deleted.
Alterations(t) ==
    {PlainText(<<"?">>)}
    \cup (IF t.cls # "text" THEN {[t EXCEPT !.ws = 1 - t.ws]} ELSE {})
    \cup (IF t.cls \notin {"text", "ManifestExternal"}
          THEN {[t EXCEPT !.obj.n = IF t.obj.n = 0 THEN 1 ELSE 0]} ELSE {})
    \cup (IF t.cls = "ManifestExternal"
          THEN {[t EXCEPT !.hashes = SelectSeq(t.hashes, LAMBDA e : e.key # k)] :
                  k \in DictKeys(t.hashes)}
          ELSE {})

\* Someone other than the program puts one more ballot file in the tree.
AddBallotFile(id) ==
    LET p == <<R1, <<"ballots">>, BallotPrefix(id), id \o <<".json">> >>
    IN  /\ nops < MaxOps
        /\ R1 \in {d[1] : d \in dirs}
        /\ p \notin DOMAIN files
        /\ files' = WriteToDisk(files, p, to_json("CiphertextAcceptedBallot", Ballot(id)))
        /\ ret' = NoRet
        /\ nops' = nops + 1
        /\ tampered' = TRUE
        /\ UNCHANGED <<dirs, mans, jobs, run>>

\* The group constants of another version of the library.
OtherConstants == Value(<<"constants">>, 1, {}, TRUE)

\* The directory is one that a library with other group constants wrote:
\* constants.json holds those constants and MANIFEST.json records that file.
WrittenWithOtherConstants ==
    LET manifest_path == compose_filename(R1, MANIFEST_JSON, None)
        path == compose_filename(R1, CRYPTO_CONSTANTS, None)
        t == to_json("ElectionConstants", OtherConstants)
        m == files[manifest_path]
    IN  /\ nops < MaxOps
        /\ manifest_path \in DOMAIN files
        /\ path \in DOMAIN files
        /\ m.cls = "ManifestExternal"
        /\ files[path] # t
        /\ files' = [files EXCEPT
                        ![path] = t,
                        ![manifest_path] =
                            [m EXCEPT !.hashes =
                                DictSet(m.hashes,
                                        compose_manifest_name(CRYPTO_CONSTANTS, None),
                                        FileInfo(sha256_hash(t), NumBytes(t)))]]
        /\ ret' = NoRet
        /\ nops' = nops + 1
        /\ tampered' = TRUE
        /\ UNCHANGED <<dirs, mans, jobs, run>>

NextTally ==
    \/ \E r \in TallyResults : WriteFastTally(r)
    \/ \E cp \in BOOLEAN : LoadFastTally(cp)
    \/ \E p \in DOMAIN files : \E t \in Alterations(files[p]) : AlterFile(p, t)
    \/ \E p \in DOMAIN files : RemoveFile(p)
    \/ \E id \in {B2, B3} : AddBallotFile(id)
    \/ WrittenWithOtherConstants

SpecTally == InitTally /\ [][NextTally]_vars

-----------------------------------------------------------------------------
(* Ballots written and loaded one by one through a manifest that is the    *)
(* only writer under its root. run.input is the list of the ballots        *)
(* written so far.                                                         *)

\* Ballot identifiers of one to five characters, some with a common prefix.
BallotIds ==
    {<<"b">>, <<"b", "0">>, <<"b", "0", "0">>, <<"b", "0", "0", "0">>, B1, B2}

\* The ballots written: one per identifier, and a second one for B1.
BallotsToWrite ==
    {Value(id, 1, {}, TRUE) : id \in BallotIds} \cup {Value(B1, 0, {}, TRUE)}

InitBallots ==
    /\ files = NoFiles
    /\ dirs = {}
    /\ mans = [m \in {"A"} |-> make_fresh_manifest(R1)]
    /\ ret = NoRet
    /\ nops = 0
    /\ tampered = FALSE
    /\ jobs = NoJobs
    /\ run = NoRun

WriteCiphertextBallot(m, ballot) ==
    LET w == write_ciphertext_ballot(mans[m], files, dirs, ballot)
    IN  /\ nops < MaxOps
        /\ mans' = [mans EXCEPT ![m] = w.self]
        /\ files' = w.files
        /\ dirs' = w.dirs
        /\ ret' = [NoRet EXCEPT !.op = "write_ciphertext_ballot", !.self = m,
                                !.file_name = ballot.name]
        /\ run' = [run EXCEPT !.input = Append(@, ballot)]
        /\ nops' = nops + 1
        /\ UNCHANGED <<tampered, jobs>>

LoadCiphertextBallot(m, ballot_id) ==
    LET r == load_ciphertext_ballot(mans[m], files, ballot_id)
    IN  /\ ret' = [NoRet EXCEPT
                      !.op = "load_ciphertext_ballot", !.self = m,
                      !.file_name = ballot_id,
                      !.raised = IF r.raised THEN "AssertionError" ELSE "",
                      !.value = r.value]
        /\ UNCHANGED <<files, dirs, mans, nops, tampered, jobs, run>>

NextBallots ==
    \/ \E ballot \in BallotsToWrite : WriteCiphertextBallot("A", ballot)
    \/ \E id \in BallotIds : LoadCiphertextBallot("A", id)

SpecBallots == InitBallots /\ [][NextBallots]_vars

-----------------------------------------------------------------------------
(* The tally engine (fast_tally_everything and all_proofs_valid), over a   *)
(* small group: exponential ElGamal modulo GroupP, in the subgroup of      *)
(* order GroupQ generated by GroupG. One contest, "vote for at most        *)
(* ContestK", with the selections Selections. A zero-knowledge proof is    *)
(* represented by the statement it proves, which the verifier evaluates.   *)

GroupP == 23

GroupQ == 11

GroupG == 2

ContestK == 1

MaxBallots == 3

Selections == {"A", "B"}

RECURSIVE PowMod(_, _)
PowMod(b, e) == IF e = 0 THEN 1 ELSE (b * PowMod(b, e - 1)) % GroupP

\* The inverse of an element of the group.
InvMod(x) == PowMod(x, GroupP - 2)

\* Component-wise product of two ciphertexts.
elgamal_add(c1, c2) ==
    [alpha |-> (c1.alpha * c2.alpha) % GroupP, beta |-> (c1.beta * c2.beta) % GroupP]

\* The group identity, seed of every reduction.
IdentityCiphertext == [alpha |-> 1, beta |-> 1]

\* (g^r, K^r * g^v)
elgamal_encrypt(v, r, K) ==
    [alpha |-> PowMod(GroupG, r), beta |-> (PowMod(K, r) * PowMod(GroupG, v)) % GroupP]

\* The nonce of selection number j of ballot number i in the seeded stream,
\* in [1, q).
Nonce(seed, i, j) == ((seed + 2 * i + j) % (GroupQ - 1)) + 1

SelectionNumber(sel) == IF sel = "A" THEN 0 ELSE 1

\* The encryption mapper: the ciphertext ballot of row i of the CVRs.
encrypt_ballot(plaintext, i, seed, K) ==
    [sel \in Selections |->
        elgamal_encrypt(plaintext[sel], Nonce(seed, i, SelectionNumber(sel)), K)]

\* Shards that leave out the ballots after the last full round of the pool.
ShardsDropRemainder(n, pool) ==
    [w \in 1..pool |-> {i \in 1..(n - (n % pool)) : i % pool = w % pool}]

\* The ballots (by number) of each shard, one shard per pool worker.
Shards(n, pool) == [w \in 1..pool |-> {i \in 1..n : i % pool = w % pool}]

\* The product of the ciphertexts of one selection over a set of ballots.
RECURSIVE ReduceShard(_, _, _)
ReduceShard(ballots, S, sel) ==
    IF S = {} THEN IdentityCiphertext
    ELSE LET i == CHOOSE i \in S : TRUE
         IN  elgamal_add(ballots[i][sel], ReduceShard(ballots, S \ {i}, sel))

\* The partial aggregates of the shards, reduced until one remains.
RECURSIVE ReducePartials(_)
ReducePartials(partials) ==
    IF partials = << >> THEN IdentityCiphertext
    ELSE elgamal_add(Head(partials), ReducePartials(Tail(partials)))

\* The homomorphic reducer: the aggregate ciphertext of a selection.
TallyReduce(ballots, pool, sel) ==
    LET shards == Shards(Len(ballots), pool)
    IN  ReducePartials([w \in 1..pool |-> ReduceShard(ballots, shards[w], sel)])

\* Decryption with proof of one aggregate: the count, the aggregate, the
\* share M = alpha^s.
decrypt_tally(aggregate, secret_key, N) ==
    LET M == PowMod(aggregate.alpha, secret_key)
        g_t == (aggregate.beta * InvMod(M)) % GroupP
    IN  [count |-> CHOOSE t \in 0..N : PowMod(GroupG, t) = g_t,
         aggregate |-> aggregate, M |-> M]

\* fast_tally_everything: the encrypted ballots and the decrypted tally of
\* the CVRs, computed with a pool of the given size.
fast_tally_everything(cvrs, pool, secret_key, seed) ==
    LET K == PowMod(GroupG, secret_key)
        ballots == [i \in 1..Len(cvrs) |-> encrypt_ballot(cvrs[i], i, seed, K)]
    IN  [public_key |-> K,
         encrypted_ballots |-> ballots,
         tally |-> [sel \in Selections |->
                      decrypt_tally(TallyReduce(ballots, pool, sel), secret_key,
                                    Len(cvrs))]]

\* The disjunctive proof of a selection: the ciphertext encrypts 0 or 1.
SelectionProofValid(c, K) ==
    \E r \in 1..(GroupQ - 1), v \in {0, 1} : c = elgamal_encrypt(v, r, K)

\* The range proof of the contest: the sum of its selections is in [0, k].
ContestProofValid(ballot, K) ==
    LET both == elgamal_add(ballot["A"], ballot["B"])
    IN  \E r \in 0..(GroupQ - 1), v \in 0..ContestK : both = elgamal_encrypt(v, r, K)

\* The Chaum-Pedersen proof of a decryption: (g, K, alpha, M) is a DDH tuple
\* and g^count * M = beta.
DecryptionProofValid(t, K) ==
    /\ \E x \in 0..(GroupQ - 1) :
          PowMod(GroupG, x) = K /\ PowMod(t.aggregate.alpha, x) = t.M
    /\ (PowMod(GroupG, t.count) * t.M) % GroupP = t.aggregate.beta

\* FastTallyEverythingResults.all_proofs_valid, rechecking ballots and
\* tallies: the verifier's steps 2 to 4.
tally_all_proofs_valid(results) ==
    LET K == results.public_key
        ballots == results.encrypted_ballots
    IN  /\ \A i \in 1..Len(ballots) :
              /\ \A sel \in Selections : SelectionProofValid(ballots[i][sel], K)
              /\ ContestProofValid(ballots[i], K)
        /\ \A sel \in Selections :
              /\ results.tally[sel].aggregate
                    = ReduceShard(ballots, 1..Len(ballots), sel)
              /\ DecryptionProofValid(results.tally[sel], K)

\* The valid plaintext ballots: 0 or 1 per selection, at most k ones.
ValidBallots ==
    {b \in [Selections -> {0, 1}] : b["A"] + b["B"] <= ContestK}

SeqsUpTo(S, n) == UNION {[1..k -> S] : k \in 1..n}

InitFastTally ==
    /\ files = NoFiles
    /\ dirs = {}
    /\ mans = [m \in {} |-> make_fresh_manifest(R1)]
    /\ ret = NoRet
    /\ nops = 0
    /\ tampered = FALSE
    /\ jobs = NoJobs
    /\ \E cvrs \in SeqsUpTo(ValidBallots, MaxBallots), pool \in 1..MaxBallots,
          secret_key \in {3, 7}, seed \in {0, 5} :
          run = [NoRun EXCEPT
                    !.pc = "start",
                    !.input = [cvrs |-> cvrs, pool |-> pool,
                               secret_key |-> secret_key, seed |-> seed]]

\* The test's body: the tally of the CVRs with a pool, then its check.
FastTallyEverything ==
    /\ run.pc = "start"
    /\ LET tally == fast_tally_everything(run.input.cvrs, run.input.pool,
                                          run.input.secret_key, run.input.seed)
       IN  ret' = [NoRet EXCEPT !.op = "fast_tally_everything",
                                !.value = Some([tally |-> tally,
                                                valid |-> tally_all_proofs_valid(tally)])]
    /\ run' = [run EXCEPT !.pc = "done"]
    /\ nops' = nops + 1
    /\ UNCHANGED <<files, dirs, mans, tampered, jobs>>

NextFastTally == FastTallyEverything

SpecFastTally == InitFastTally /\ [][NextFastTally]_vars

-----------------------------------------------------------------------------
(* arlo_audit_report.py: reading the sampled ballots of an Arlo audit      *)
(* report. A line of the report is a str; "," is a symbol of its own and a *)
(* section header is one symbol, so that a line that starts with a header  *)
(* is that symbol followed by others. A cell of the data frame is          *)
(* [nan, str]: the float NaN that pandas gives for an empty cell, or a str. *)

SAMPLED_BALLOTS == "######## SAMPLED BALLOTS ########"

imprinted_id_ == <<"Imprinted ID">>

cvr_result_ == "CVR Result: "

audit_result_ == "Audit Result: "

discrepancy_ == "Discrepancy: "

\* s.startswith(prefix), for a prefix of one symbol.
startswith(s, prefix) == Len(s) > 0 /\ s[1] = prefix

\* A cell that pandas read as empty, and a cell that holds a string.
NaN == [nan |-> TRUE, str |-> << >>]

Str(s) == [nan |-> FALSE, str |-> s]

\* dominion.fix_strings on a cell: NaN becomes None, a string stays.
fix_strings(input) == IF input.nan THEN None ELSE Some(input.str)

\* _audit_fix_strings
audit_fix_strings(input) ==
    LET fixed == fix_strings(input)
    IN  IF fixed = Some(<<"CONTEST_NOT_ON_BALLOT">>) THEN None ELSE fixed

\* re.sub(" Vote for.*$", "", input)
RECURSIVE StripVoteFor(_)
StripVoteFor(input) ==
    IF input = << >> THEN << >>
    ELSE IF Head(input) = " Vote for" THEN << >>
    ELSE <<Head(input)>> \o StripVoteFor(Tail(input))

\* _fix_contest_name
fix_contest_name(input) ==
    StripVoteFor(IF \/ startswith(input, cvr_result_)
                    \/ startswith(input, audit_result_)
                    \/ startswith(input, discrepancy_)
                 THEN Tail(input) ELSE input)

\* {_fix_contest_name(k): fix(row[k]) for k in keys}, built in the order of
\* keys; fix is _audit_fix_strings for the audit results, else fix_strings.
DictOf(row, keys, audit) ==
    LET acc[i \in 0..Len(keys)] ==
            IF i = 0 THEN << >>
            ELSE DictSet(acc[i - 1], fix_contest_name(keys[i]),
                         IF audit THEN audit_fix_strings(DictGet(row, keys[i]))
                         ELSE fix_strings(DictGet(row, keys[i])))
    IN  acc[Len(keys)]

\* ArloSampledBallot.__init__(row)
ArloSampledBallot(row) ==
    LET keys == [i \in 1..Len(row) |-> row[i].key]
        metadata_keys ==
            SelectSeq(keys, LAMBDA k : /\ ~startswith(k, cvr_result_)
                                       /\ ~startswith(k, discrepancy_)
                                       /\ ~startswith(k, audit_result_))
        audit_keys == SelectSeq(keys, LAMBDA k : startswith(k, audit_result_))
        cvr_keys == SelectSeq(keys, LAMBDA k : startswith(k, cvr_result_))
        discrepancy_keys == SelectSeq(keys, LAMBDA k : startswith(k, discrepancy_))
    IN  [imprintedId |-> fix_strings(DictGet(row, imprinted_id_)),
         metadata |-> DictOf(row, metadata_keys, FALSE),
         audit_result |-> DictOf(row, audit_keys, TRUE),
         cvr_result |-> DictOf(row, cvr_keys, FALSE),
         discrepancy |-> DictOf(row, discrepancy_keys, FALSE)]

\* One record of the data frame: the cells of a line under the columns, a
\* missing or empty cell being NaN.
RowOf(columns, cells) ==
    [j \in 1..Len(columns) |->
        [key |-> columns[j],
         value |-> IF j <= Len(cells) /\ cells[j] # << >> THEN Str(cells[j])
                   ELSE NaN]]

\* pd.read_csv(data, header=[0], sep=",", engine="python") and
\* df.to_dict(orient="records"): [raised, columns, rows]. Blank lines are
\* skipped, the first line left names the columns, a line with more fields
\* than columns is a ParserError, no line at all is an EmptyDataError.
read_csv(data) ==
    LET nonblank == SelectSeq(data, LAMBDA l : l # << >>)
        columns == Split(nonblank[1], ",")
        records == [i \in 1..(Len(nonblank) - 1) |-> Split(nonblank[i + 1], ",")]
    IN  IF nonblank = << >>
        THEN [raised |-> "EmptyDataError", columns |-> << >>, rows |-> << >>]
        ELSE IF \E i \in 1..Len(records) : Len(records[i]) > Len(columns)
        THEN [raised |-> "ParserError", columns |-> << >>, rows |-> << >>]
        ELSE [raised |-> "", columns |-> columns,
              rows |-> [i \in 1..Len(records) |-> RowOf(columns, records[i])]]

\* The index of the first line that starts with the header, or -1.
FindHeader(lines) ==
    IF \E i \in 1..Len(lines) : startswith(lines[i], SAMPLED_BALLOTS)
    THEN (CHOOSE i \in 1..Len(lines) :
             /\ startswith(lines[i], SAMPLED_BALLOTS)
             /\ \A j \in 1..(i - 1) : ~startswith(lines[j], SAMPLED_BALLOTS)) - 1
    ELSE -1

\* arlo_audit_report_to_results: [raised, value, opened]. file is
\* [is_str, found, lines]: a file name (of a file that is found or not) or
\* a StringIO, and the lines of its text; opened tells that open() returned
\* a file object, which the function never closes.
arlo_audit_report_to_results(file) ==
    LET lines == file.lines
        header_line_no == FindHeader(lines)
        opened == file.is_str
        data == SubSeq(lines, header_line_no + 2, Len(lines))
        df == read_csv(data)
    IN  IF file.is_str /\ ~file.found
        THEN [raised |-> "", value |-> None, opened |-> FALSE]
        ELSE IF header_line_no = Len(lines) - 1
        THEN [raised |-> "", value |-> Some(<< >>), opened |-> opened]
        ELSE IF header_line_no = -1
        THEN [raised |-> "", value |-> None, opened |-> opened]
        ELSE IF df.raised = "ParserError"
        THEN [raised |-> "", value |-> None, opened |-> opened]
        ELSE IF df.raised # ""
        THEN [raised |-> df.raised, value |-> None, opened |-> opened]
        ELSE IF imprinted_id_ \notin Range(df.columns)
        THEN [raised |-> "", value |-> None, opened |-> opened]
        ELSE [raised |-> "",
              value |-> Some([i \in 1..Len(df.rows) |-> ArloSampledBallot(df.rows[i])]),
              opened |-> opened]

-----------------------------------------------------------------------------
(* The applications as processes: the benchmark (ray_remote_bench.py), the *)
(* end-to-end test (test_tally.py) and a reader of an audit report. What   *)
(* the code outside these files computes is an input of the run: whether a *)
(* CVR file parses, how many rows it has, whether a tally's proofs verify. *)
(* run.held is the set of resources acquired and not released.             *)

MaxFiles == 2

MaxLines == 4

\* What may happen with one CVR file: read_dominion_csv returns None or CVRs
\* with some rows, and the tally of those has proofs that verify or not.
CvrOutcomes ==
    {[parses |-> FALSE, rows |-> 0, proofs_valid |-> TRUE],
     [parses |-> TRUE, rows |-> 0, proofs_valid |-> TRUE],
     [parses |-> TRUE, rows |-> 2, proofs_valid |-> TRUE],
     [parses |-> TRUE, rows |-> 2, proofs_valid |-> FALSE]}

\* The lines an audit report is made of.
ReportLines ==
    {<<SAMPLED_BALLOTS>>,
     <<SAMPLED_BALLOTS, " (copy)">>,
     <<"######## ROUNDS ########">>,
     <<"Imprinted ID", ",", "Audited?">>,
     <<"b1", ",", "AUDITED">>,
     <<"b2", ",", "NOT_AUDITED">>,
     << >>}

InitApps ==
    /\ files = NoFiles
    /\ dirs = {}
    /\ mans = [m \in {} |-> make_fresh_manifest(R1)]
    /\ ret = NoRet
    /\ nops = 0
    /\ tampered = FALSE
    /\ jobs = NoJobs
    /\ \/ \E cvr_file \in SeqsUpTo(CvrOutcomes, MaxFiles), dir \in {None, Some(R1)} :
             run = [NoRun EXCEPT !.pc = "bench",
                                 !.input = [cvr_file |-> cvr_file, dir |-> dir]]
       \/ \E valid \in BOOLEAN :
             run = [NoRun EXCEPT !.pc = "test", !.input = [valid |-> valid]]
       \/ \E lines \in SeqsUpTo(ReportLines, MaxLines) \cup {<< >>},
             is_str \in BOOLEAN, found \in BOOLEAN :
             /\ is_str \/ found
             /\ found \/ lines = << >>
             /\ run = [NoRun EXCEPT
                          !.pc = "report",
                          !.input = [is_str |-> is_str, found |-> found,
                                     lines |-> lines]]

\* ray_init_cluster(): the cluster session is started.
RayInitCluster ==
    /\ run.pc = "bench"
    /\ run' = [run EXCEPT !.pc = "loop", !.i = 1, !.held = @ \cup {"ray"}]
    /\ ret' = [NoRet EXCEPT !.op = "ray_init_cluster"]
    /\ nops' = nops + 1
    /\ UNCHANGED <<files, dirs, mans, tampered, jobs>>

\* run_bench that goes on after a file it failed to read.
run_bench_skips_unreadable(cvrs, output_dir) ==
    IF ~cvrs.parses THEN ""
    ELSE IF ~(cvrs.rows > 0) THEN "AssertionError"
    ELSE IF ~IsNone(output_dir) /\ ~cvrs.proofs_valid THEN "AssertionError"
    ELSE ""

\* run_bench: the exception it ends with, "" if it returns.
run_bench(cvrs, output_dir) ==
    IF ~cvrs.parses THEN "SystemExit(1)"
    ELSE IF ~(cvrs.rows > 0) THEN "AssertionError"
    ELSE IF ~IsNone(output_dir) /\ ~cvrs.proofs_valid THEN "AssertionError"
    ELSE ""

\* One round of "for arg in files: run_bench(arg, file_dir)". An exception
\* leaves the loop and the program: nothing catches it, and the interpreter
\* exits with code 1 for SystemExit(1) and for an uncaught AssertionError.
RunBench ==
    /\ run.pc = "loop"
    /\ run.i <= Len(run.input.cvr_file)
    /\ LET raised == run_bench(run.input.cvr_file[run.i], run.input.dir)
       IN  /\ run' = IF raised = "" THEN [run EXCEPT !.i = @ + 1]
                     ELSE [run EXCEPT !.pc = "exited", !.exit_code = Some(1)]
           /\ ret' = [NoRet EXCEPT !.op = "run_bench", !.raised = raised]
    /\ nops' = nops + 1
    /\ UNCHANGED <<files, dirs, mans, tampered, jobs>>

\* After the loop: the timelines are written, ray.shutdown(), exit(0).
BenchFinish ==
    /\ run.pc = "loop"
    /\ run.i > Len(run.input.cvr_file)
    /\ run' = [run EXCEPT !.pc = "exited", !.held = @ \ {"ray"},
                          !.exit_code = Some(0)]
    /\ ret' = [NoRet EXCEPT !.op = "ray.shutdown"]
    /\ nops' = nops + 1
    /\ UNCHANGED <<files, dirs, mans, tampered, jobs>>

\* test_end_to_end from Pool(cpu_count()) on: the pool is closed after the
\* assertion on the proofs, if that passes.
TestEndToEnd ==
    /\ run.pc = "test"
    /\ run' = [run EXCEPT !.pc = "returned",
                          !.held = IF run.input.valid THEN {} ELSE {"pool"}]
    /\ ret' = [NoRet EXCEPT !.op = "test_end_to_end",
                            !.raised = IF run.input.valid THEN ""
                                       ELSE "AssertionError"]
    /\ nops' = nops + 1
    /\ UNCHANGED <<files, dirs, mans, tampered, jobs>>

\* A call of arlo_audit_report_to_results with the input of the run.
ArloAuditReportToResults ==
    /\ run.pc = "report"
    /\ LET r == arlo_audit_report_to_results(run.input)
       IN  /\ run' = [run EXCEPT !.pc = "returned",
                                 !.held = IF r.opened THEN {"file"} ELSE {}]
           /\ ret' = [NoRet EXCEPT !.op = "arlo_audit_report_to_results",
                                   !.raised = r.raised, !.value = r.value]
    /\ nops' = nops + 1
    /\ UNCHANGED <<files, dirs, mans, tampered, jobs>>

NextApps ==
    \/ RayInitCluster
    \/ RunBench
    \/ BenchFinish
    \/ TestEndToEnd
    \/ ArloAuditReportToResults

SpecApps == InitApps /\ [][NextApps]_vars

-----------------------------------------------------------------------------
(* ArloSampledBallot.__init__ on the records of a data frame: a row with   *)
(* the identifier, the Audited? column and the three columns of a contest. *)

\* The name of a contest as it follows a column prefix.
ContestColumns == {<<"Mayor">>, <<"Mayor", " Vote for", " 1">>}

\* What a per-contest cell may hold.
Cells == {NaN, Str(<<"CONTEST_NOT_ON_BALLOT">>), Str(<<"Alice">>)}

SampledRows ==
    {<<[key |-> imprinted_id_, value |-> Str(<<"b1">>)],
       [key |-> <<"Audited?">>, value |-> Str(<<audited>>)],
       [key |-> <<audit_result_>> \o c, value |-> a],
       [key |-> <<cvr_result_>> \o c, value |-> v],
       [key |-> <<discrepancy_>> \o c, value |-> d]>> :
        audited \in {"AUDITED", "NOT_AUDITED"}, c \in ContestColumns,
        a \in Cells, v \in Cells, d \in Cells}

InitRows ==
    /\ files = NoFiles
    /\ dirs = {}
    /\ mans = [m \in {} |-> make_fresh_manifest(R1)]
    /\ ret = NoRet
    /\ nops = 0
    /\ tampered = FALSE
    /\ jobs = NoJobs
    /\ \E row \in SampledRows : run = [NoRun EXCEPT !.pc = "row", !.input = row]

\* ArloSampledBallot(row)
NewArloSampledBallot ==
    /\ run.pc = "row"
    /\ run' = [run EXCEPT !.pc = "returned"]
    /\ ret' = [NoRet EXCEPT !.op = "ArloSampledBallot",
                            !.value = Some(ArloSampledBallot(run.input))]
    /\ nops' = nops + 1
    /\ UNCHANGED <<files, dirs, mans, tampered, jobs>>

NextRows == NewArloSampledBallot

SpecRows == InitRows /\ [][NextRows]_vars

-----------------------------------------------------------------------------
(* Names and paths: one manifest on a root directory of one or of several  *)
(* segments writes a file and reads it back, and the helpers that turn a   *)
(* path into a logical name and a logical name into a path are applied to  *)
(* the same file name and subdirectories.                                  *)

\* Root directories: "r1", "out/run1" and "./r1".
Roots == {R1, <<"out", "/", "run1">>, <<".", "/", "r1">>}

\* File names and lists of subdirectories, every segment a plain name.
PathArgs ==
    {[file_name |-> f, subdirectories |-> d] :
        f \in {<<"x", ".json">>, <<"y">>},
        d \in {None, Some(<< >>), Some(<<(<<"d">>)>>), Some(<<(<<"d">>), <<"e">>>>)}}

InitPaths ==
    /\ files = NoFiles
    /\ dirs = {}
    /\ \E r \in Roots : mans = [m \in {"A"} |-> make_fresh_manifest(r)]
    /\ ret = NoRet
    /\ nops = 0
    /\ tampered = FALSE
    /\ jobs = NoJobs
    /\ \E a \in PathArgs : run = [NoRun EXCEPT !.pc = "start", !.input = a]

\* manifest.write_file(file_name, t, subdirectories)
PathsWriteFile(t) ==
    LET a == run.input
        w == write_file(mans["A"], files, dirs, a.file_name, t, a.subdirectories)
    IN  /\ run.pc = "start"
        /\ mans' = [mans EXCEPT !["A"] = w.self]
        /\ files' = w.files
        /\ dirs' = w.dirs
        /\ ret' = [NoRet EXCEPT
                      !.op = "write_file", !.self = "A", !.file_name = a.file_name,
                      !.subdirectories = a.subdirectories, !.text = Some(t)]
        /\ run' = [run EXCEPT !.pc = "written"]
        /\ nops' = nops + 1
        /\ UNCHANGED <<tampered, jobs>>

\* manifest.read_file(file_name, subdirectories), of the file just written.
PathsReadFile ==
    LET a == run.input
        r == read_file(mans["A"], files, a.file_name, a.subdirectories)
    IN  /\ run.pc = "written"
        /\ ret' = [NoRet EXCEPT
                      !.op = "read_file", !.self = "A", !.file_name = a.file_name,
                      !.subdirectories = a.subdirectories, !.text = ret.text,
                      !.raised = IF r.raised THEN "AssertionError" ELSE "",
                      !.value = r.value]
        /\ run' = [run EXCEPT !.pc = "done"]
        /\ nops' = nops + 1
        /\ UNCHANGED <<files, dirs, mans, tampered, jobs>>

\* path_to_manifest_name(root_dir, compose_filename(root_dir, file_name,
\* subdirectories)), as read_file computes it.
PathToManifestName ==
    LET a == run.input
        root_dir == mans["A"].root_dir
        r == path_to_manifest_name(root_dir,
                 compose_filename(root_dir, a.file_name, a.subdirectories))
    IN  /\ run.pc = "start"
        /\ ret' = [NoRet EXCEPT
                      !.op = "path_to_manifest_name", !.self = "A",
                      !.file_name = a.file_name,
                      !.subdirectories = a.subdirectories,
                      !.raised = IF r.raised THEN "AssertionError" ELSE "",
                      !.value = IF r.raised THEN None ELSE Some(r.value)]
        /\ run' = [run EXCEPT !.pc = "done"]
        /\ nops' = nops + 1
        /\ UNCHANGED <<files, dirs, mans, tampered, jobs>>

\* manifest_name_to_filename(compose_manifest_name(file_name, subdirectories))
ManifestNameToFilename ==
    LET a == run.input
    IN  /\ run.pc = "start"
        /\ ret' = [NoRet EXCEPT
                      !.op = "manifest_name_to_filename",
                      !.file_name = a.file_name,
                      !.subdirectories = a.subdirectories,
                      !.value = Some(manifest_name_to_filename(
                                    compose_manifest_name(a.file_name,
                                                          a.subdirectories)))]
        /\ run' = [run EXCEPT !.pc = "done"]
        /\ nops' = nops + 1
        /\ UNCHANGED <<files, dirs, mans, tampered, jobs>>

NextPaths ==
    \/ \E t \in Texts : PathsWriteFile(t)
    \/ PathsReadFile
    \/ PathToManifestName
    \/ ManifestNameToFilename

SpecPaths == InitPaths /\ [][NextPaths]_vars

-----------------------------------------------------------------------------
(* Vocabulary of the properties: the file and the logical name that a      *)
(* file name and its subdirectories stand for under a one-segment root.    *)

SubdirList(subdirectories) ==
    IF IsNone(subdirectories) THEN << >> ELSE Get(subdirectories)

TheFile(root_dir, file_name, subdirectories) ==
    <<root_dir>> \o SubdirList(subdirectories) \o <<file_name>>

LogicalName(file_name, subdirectories) ==
    Join(SubdirList(subdirectories) \o <<file_name>>, "|")

\* The file is there and its bytes have the recorded length and hash.
FileMatchesEntry(self, fs, file_name, subdirectories) ==
    LET path == TheFile(self.root_dir, file_name, subdirectories)
        name == LogicalName(file_name, subdirectories)
    IN  /\ path \in DOMAIN fs
        /\ DictHas(self.hashes, name)
        /\ DictGet(self.hashes, name).num_bytes = NumBytes(fs[path])
        /\ DictGet(self.hashes, name).hash = sha256_hash(fs[path])

\* The step is the operation op, performed now.
Did(op) == nops' = nops + 1 /\ ret'.op = op

-----------------------------------------------------------------------------
C2_OverwriteDifferentFails ==
    [][Did("write_file") =>
        LET self == mans[ret'.self]
            name == LogicalName(ret'.file_name, ret'.subdirectories)
            new == FileInfo(sha256_hash(Get(ret'.text)), NumBytes(Get(ret'.text)))
        IN  DictHas(self.hashes, name) =>
              IF DictGet(self.hashes, name) # new
              THEN /\ ret'.raised # ""
                   /\ DictGet(mans'[ret'.self].hashes, name) = DictGet(self.hashes, name)
              ELSE ret'.raised = ""]_vars

(* C2 amended: write_file on a logical name that already has an entry      *)
(* never fails, whether or not the new contents differ: it warns, writes   *)
(* the file, replaces the entry by the new contents' hash and length and   *)
(* adds the new length to bytes_written.                                   *)
C2_OverwriteWarnsAndReplaces ==
    [][Did("write_file") =>
        LET self == mans[ret'.self]
            after == mans'[ret'.self]
            name == LogicalName(ret'.file_name, ret'.subdirectories)
            path == TheFile(self.root_dir, ret'.file_name, ret'.subdirectories)
            new == FileInfo(sha256_hash(Get(ret'.text)), NumBytes(Get(ret'.text)))
        IN  DictHas(self.hashes, name) =>
              /\ ret'.raised = ""
              /\ DictKeys(after.hashes) = DictKeys(self.hashes)
              /\ DictGet(after.hashes, name) = new
              /\ \A k \in DictKeys(self.hashes) \ {name} :
                    DictGet(after.hashes, k) = DictGet(self.hashes, k)
              /\ after.bytes_written = self.bytes_written + new.num_bytes
              /\ path \in DOMAIN files' /\ files'[path] = Get(ret'.text)]_vars

\* A write over an entry that recorded different contents has succeeded.
C2_Witness ==
    /\ ret.op = "write_file"
    /\ ret.raised = ""
    /\ ~IsNone(ret.prior)
    /\ Get(ret.prior).hash # sha256_hash(Get(ret.text))
    /\ DictGet(mans[ret.self].hashes, LogicalName(ret.file_name, ret.subdirectories)).hash
         = sha256_hash(Get(ret.text))

(* C3: merge_from(other) fails if and only if the two manifests have       *)
(* different root directories or some logical name present in both has     *)
(* unequal entries; whenever it succeeds, self.hashes afterwards maps      *)
(* exactly the union of the two name sets, each name to the entry it had   *)
(* in the manifest(s) that contained it.                                   *)
C3_MergeFailsIffConflict ==
    [][Did("merge_from") =>
        LET self == mans[ret'.self]
            other == mans[ret'.other]
            after == mans'[ret'.self]
            conflict ==
                \/ self.root_dir # other.root_dir
                \/ \E k \in DictKeys(self.hashes) \cap DictKeys(other.hashes) :
                      DictGet(self.hashes, k) # DictGet(other.hashes, k)
        IN  /\ (ret'.raised # "") <=> conflict
            /\ ret'.raised = "" =>
                  /\ DictKeys(after.hashes) = DictKeys(self.hashes) \cup DictKeys(other.hashes)
                  /\ \A k \in DictKeys(self.hashes) :
                        DictGet(after.hashes, k) = DictGet(self.hashes, k)
                  /\ \A k \in DictKeys(other.hashes) :
                        DictGet(after.hashes, k) = DictGet(other.hashes, k)]_vars

\* A merge has succeeded that brought in a name self did not have and kept
\* one that other does not have.
C3_Witness ==
    /\ ret.op = "merge_from"
    /\ ret.raised = ""
    /\ DictKeys(mans[ret.other].hashes) # {}
    /\ DictKeys(mans[ret.self].hashes) \ DictKeys(mans[ret.other].hashes) # {}

\* The text of MANIFEST.json after x.merge_from(y); x.write_manifest().
SealedAfterMerge(x, y) ==
    LET merged == merge_from(x, y).self
    IN  write_manifest(merged, files, dirs).files[TheFile(x.root_dir, MANIFEST_JSON, None)]

NonConflicting(x, y) ==
    /\ x.root_dir = y.root_dir
    /\ \A k \in DictKeys(x.hashes) \cap DictKeys(y.hashes) :
          DictGet(x.hashes, k) = DictGet(y.hashes, k)

(* C4: for any two non-conflicting manifests A and B on the same root,     *)
(* merging B into A and then sealing produces a MANIFEST.json that is      *)
(* byte-for-byte identical to the one produced by merging A into B and     *)
(* then sealing.                                                           *)
C4_MergeCommutesAfterSeal ==
    NonConflicting(mans["A"], mans["B"]) =>
        SealedAfterMerge(mans["A"], mans["B"]) = SealedAfterMerge(mans["B"], mans["A"])

\* A single manifest that performs the writes i..MaxWrites of the run itself.
RECURSIVE SingleWriter(_, _, _)
SingleWriter(self, texts, i) ==
    IF i > MaxWrites THEN self
    ELSE SingleWriter(write_file(self, NoFiles, {}, WriteArgs[i].file_name, texts[i],
                                 WriteArgs[i].subdirectories).self,
                      texts, i + 1)

\* The text of write i, read back from the file it was written to.
WrittenTexts ==
    [i \in 1..MaxWrites |->
        files[TheFile(R1, WriteArgs[i].file_name, WriteArgs[i].subdirectories)]]

(* C5: for any set of writes with pairwise distinct logical names, any     *)
(* split of them among worker manifests on the same root, any interleaving *)
(* of the workers' write_file calls and any order of the coordinator's     *)
(* merge_from calls, the merged manifest has the same hashes map and the   *)
(* same bytes_written as a single manifest that performed all the writes.  *)
C5_MergedEqualsSingleWriter ==
    jobs.merged = Workers =>
        LET single == SingleWriter(make_fresh_manifest(R1), WrittenTexts, 1)
        IN  /\ DictMap(mans["C"].hashes) = DictMap(single.hashes)
            /\ mans["C"].bytes_written = single.bytes_written

\* Both workers wrote files, and both were merged, W2 first.
C5_Witness ==
    /\ jobs.merged = Workers
    /\ \A w \in Workers : mans[w].hashes # << >>
    /\ ret.op = "merge_from" /\ ret.other = "W1" /\ ret.raised = ""

\* Properties of a results directory: MANIFEST.json as it is on disk, the
\* files under ballots/, and the logical name of a file under the root.
ManifestPath == <<R1, MANIFEST_JSON>>

ManifestOnDisk ==
    Manifest(R1, files[ManifestPath].hashes, files[ManifestPath].bytes_written)

HasManifestOnDisk ==
    ManifestPath \in DOMAIN files /\ files[ManifestPath].cls = "ManifestExternal"

BallotFiles == {p \in DOMAIN files : Len(p) > 2 /\ p[1] = R1 /\ p[2] = <<"ballots">>}

NameOfPath(p) == Join(Tail(p), "|")

\* The file at path p has an entry in MANIFEST.json on disk.
Listed(p) == DictHas(ManifestOnDisk.hashes, NameOfPath(p))

\* The bytes of the file at p have the hash and length of that entry.
MatchesListing(p) ==
    LET e == DictGet(ManifestOnDisk.hashes, NameOfPath(p))
    IN  e.num_bytes = NumBytes(files[p]) /\ e.hash = sha256_hash(files[p])

TopLevelFiles ==
    {ELECTION_DESCRIPTION, CRYPTO_CONSTANTS, CRYPTO_CONTEXT, ENCRYPTED_TALLY,
     ELECTION_METADATA}

(* C6: after every completed write_fast_tally call, including a call into  *)
(* a results directory that already holds the files of an earlier tally,   *)
(* every file under the root other than MANIFEST.json has an entry in the  *)
(* on-disk MANIFEST.json whose hash and length match that file's bytes.    *)
(* Stated for directories that only write_fast_tally has written to.       *)
C6_DirectoryCoveredAfterWrite ==
    (ret.op = "write_fast_tally" /\ ~tampered) =>
        /\ HasManifestOnDisk
        /\ \A p \in DOMAIN files :
              (p[1] = R1 /\ p # ManifestPath) => (Listed(p) /\ MatchesListing(p))

(* C7: for a sealed directory in which the bytes of a file under ballots/  *)
(* have been altered after sealing, load_fast_tally detects the mismatch   *)
(* with MANIFEST.json and returns None, whether or not the proofs are      *)
(* checked.                                                                *)
C7_AlteredBallotRejected ==
    (/\ ret.op = "load_fast_tally"
     /\ HasManifestOnDisk
     /\ \E p \in BallotFiles : Listed(p) /\ ~MatchesListing(p))
    => ret.value = None

(* C8: load_fast_tally returns a result only if every ballot file it loads *)
(* from the ballots/ tree has an entry in MANIFEST.json.                   *)
C8_UnlistedBallotRejected ==
    (ret.op = "load_fast_tally" /\ ret.value # None) =>
        \A p \in BallotFiles : Listed(p)

BallotPath(id) == <<R1, <<"ballots">>, BallotPrefix(id), id \o <<".json">> >>

(* C11: in every run of write_fast_tally, MANIFEST.json is written exactly *)
(* once and is the last file written: the five top-level artifacts and     *)
(* every ballot file are written before it and no file after it.           *)
C11_ManifestWrittenLast ==
    ret.op = "write_fast_tally" =>
        LET log == ret.log
            n == Len(log)
            before == {log[i] : i \in 1..(n - 1)}
        IN  /\ n > 0
            /\ log[n] = ManifestPath
            /\ ManifestPath \notin before
            /\ \A f \in TopLevelFiles : <<R1, f>> \in before
            /\ \A b \in Range(Get(ret.results).encrypted_ballots) :
                  BallotPath(b.name) \in before

\* A tally of two ballots has been written: eight files, MANIFEST.json last.
C11_Witness ==
    /\ ret.op = "write_fast_tally"
    /\ Len(Get(ret.results).encrypted_ballots) = 2
    /\ Len(ret.log) = 8
    /\ ret.log[8] = ManifestPath

(* C12: write_fast_tally refuses to overwrite: called with a results       *)
(* directory that already contains a tally, it fails without modifying any *)
(* existing file in that directory.                                        *)
C12_RefusesToOverwrite ==
    [][(Did("write_fast_tally") /\ ManifestPath \in DOMAIN files) =>
          /\ ret'.raised # ""
          /\ \A p \in DOMAIN files : p \in DOMAIN files' /\ files'[p] = files[p]]_vars

\* constants.json is there and holds constants other than the library's.
ConstantsDiffer ==
    /\ <<R1, CRYPTO_CONSTANTS>> \in DOMAIN files
    /\ files[<<R1, CRYPTO_CONSTANTS>>].cls = "ElectionConstants"
    /\ files[<<R1, CRYPTO_CONSTANTS>>].obj # ElectionConstants

(* C13: load_fast_tally returns None whenever the constants.json it reads  *)
(* differs from the library's current group constants, even when its hash  *)
(* matches the manifest, and does so before reading the cryptographic      *)
(* context, the tally, the metadata or any ballot.                         *)
C13_ConstantsMismatchRejected ==
    (ret.op = "load_fast_tally" /\ ConstantsDiffer) =>
        /\ ret.value = None
        /\ \A i \in 1..Len(ret.log) :
              /\ ret.log[i] \notin {<<R1, CRYPTO_CONTEXT>>, <<R1, ENCRYPTED_TALLY>>,
                                    <<R1, ELECTION_METADATA>>}
              /\ ret.log[i] \notin BallotFiles

\* A load refused for the constants alone: every file of the directory,
\* constants.json included, matches its entry in MANIFEST.json, there is a
\* ballot to read, and constants.json was the last file read.
C13_Witness ==
    /\ ret.op = "load_fast_tally"
    /\ ConstantsDiffer
    /\ ret.value = None
    /\ HasManifestOnDisk
    /\ \A f \in TopLevelFiles : FileMatchesEntry(ManifestOnDisk, files, f, None)
    /\ BallotFiles # {}
    /\ \A p \in BallotFiles : Listed(p) /\ MatchesListing(p)
    /\ Len(ret.log) = 3
    /\ ret.log[3] = <<R1, CRYPTO_CONSTANTS>>

\* Manifest m is the only writer to its root and nothing was altered from
\* outside: no other manifest on that root has recorded a file.
SoleWriter(m) ==
    /\ ~tampered
    /\ \A o \in DOMAIN mans :
          o # m => (mans[o].root_dir # mans[m].root_dir \/ mans[o].hashes = << >>)

PlaintextCount(cvrs, sel) == Cardinality({i \in 1..Len(cvrs) : cvrs[i][sel] = 1})

(* C15: for every non-empty set of valid ballots, the tally produced by    *)
(* fast_tally_everything passes all_proofs_valid, and the decrypted count  *)
(* of every (contest, selection) equals the number of ballots whose        *)
(* plaintext has 1 at that selection, for any number of pool workers.      *)
C15_TallyValidAndCorrect ==
    ret.op = "fast_tally_everything" =>
        /\ Get(ret.value).valid
        /\ \A sel \in Selections :
              Get(ret.value).tally.tally[sel].count
                = PlaintextCount(run.input.cvrs, sel)

\* Three ballots voting A, A, B were tallied by a pool of two workers.
C15_Witness ==
    /\ ret.op = "fast_tally_everything"
    /\ run.input.pool = 2
    /\ Len(run.input.cvrs) = 3
    /\ Get(ret.value).tally.tally["A"].count = 2
    /\ Get(ret.value).tally.tally["B"].count = 1

(* C16: every acquired resource is released on every exit path, failure   *)
(* included: the Ray cluster session when the benchmark completes and when *)
(* run_bench exits on a parse failure or a failed proof assertion, the     *)
(* test's worker pool when the proof assertion fails, and the file opened  *)
(* by arlo_audit_report_to_results on every return.                        *)
C16_ResourcesReleased ==
    run.pc \in {"exited", "returned"} => run.held = {}

\* The CVR files of the benchmark run.
CvrFiles == run.input.cvr_file

(* C17 as stated: the benchmark exits with code 1 if any CVR file fails to *)
(* parse or any tally's proofs fail to verify, with or without an output   *)
(* directory, and with code 0 only if every file was parsed and every      *)
(* tally's proofs verified.                                                *)
C17_ExitCodeReflectsProofs ==
    (run.pc = "exited" /\ ret.op \in {"run_bench", "ray.shutdown"}) =>
        /\ (\E i \in 1..Len(CvrFiles) :
                ~CvrFiles[i].parses \/ ~CvrFiles[i].proofs_valid)
              => run.exit_code = Some(1)
        /\ run.exit_code = Some(0) =>
              \A i \in 1..Len(CvrFiles) :
                  CvrFiles[i].parses /\ CvrFiles[i].proofs_valid

(* C17 amended: the benchmark exits with code 1 if any CVR file fails to   *)
(* parse or holds no ballots, or if an output directory was given and any  *)
(* tally's proofs fail to verify; it exits with code 0 only if every file  *)
(* was parsed, held a ballot and, when an output directory was given, had  *)
(* its tally's proofs verified.                                            *)
C17_ExitCodeReflectsChecksMade ==
    (run.pc = "exited" /\ ret.op \in {"run_bench", "ray.shutdown"}) =>
        /\ run.exit_code \in {Some(0), Some(1)}
        /\ (\E i \in 1..Len(CvrFiles) :
                \/ ~CvrFiles[i].parses
                \/ CvrFiles[i].rows = 0
                \/ ~IsNone(run.input.dir) /\ ~CvrFiles[i].proofs_valid)
              => run.exit_code = Some(1)
        /\ run.exit_code = Some(0) =>
              \A i \in 1..Len(CvrFiles) :
                  /\ CvrFiles[i].parses
                  /\ CvrFiles[i].rows > 0
                  /\ ~IsNone(run.input.dir) => CvrFiles[i].proofs_valid

\* With an output directory, the first file was tallied and verified and the
\* second one's proofs failed: exit code 1.
C17_Witness ==
    /\ run.pc = "exited"
    /\ run.exit_code = Some(1)
    /\ ~IsNone(run.input.dir)
    /\ run.i = 2
    /\ CvrFiles[2].parses /\ CvrFiles[2].rows > 0 /\ ~CvrFiles[2].proofs_valid

\* A line that is a section delimiter, ######## <NAME> ########, exactly.
IsDelimiter(line) ==
    Len(line) = 1 /\ line[1] \in {SAMPLED_BALLOTS, "######## ROUNDS ########"}

\* The lines of the SAMPLED BALLOTS section: those after the first line that
\* is exactly its header, up to the next delimiter or the end of the input.
SectionLines(lines) ==
    IF \A i \in 1..Len(lines) : lines[i] # <<SAMPLED_BALLOTS>> THEN << >>
    ELSE LET h == CHOOSE i \in 1..Len(lines) :
                     /\ lines[i] = <<SAMPLED_BALLOTS>>
                     /\ \A j \in 1..(i - 1) : lines[j] # <<SAMPLED_BALLOTS>>
             stops == {k \in (h + 1)..Len(lines) : IsDelimiter(lines[k])}
             end == IF stops = {} THEN Len(lines)
                    ELSE (CHOOSE k \in stops : \A k2 \in stops : k <= k2) - 1
         IN  SubSeq(lines, h + 1, end)

(* C20: arlo_audit_report_to_results consumes only the SAMPLED BALLOTS     *)
(* section, which begins after the line that is exactly its header and     *)
(* ends at the next section delimiter or the end of the input: every row   *)
(* returned comes from a line of that section, so that no line of another  *)
(* section contributes a row and a line that merely starts with the header *)
(* text does not open the section.                                         *)
C20_OnlySampledBallotsSection ==
    (ret.op = "arlo_audit_report_to_results" /\ ret.value # None) =>
        \A b \in Range(Get(ret.value)) :
            \E l \in Range(SectionLines(run.input.lines)) :
                l # << >> /\ b.imprintedId = Some(Split(l, ",")[1])

\* The sum of num_bytes over the entries of a hashes dict.
RECURSIVE RecordedBytes(_)
RecordedBytes(hashes) ==
    IF hashes = << >> THEN 0
    ELSE Head(hashes).value.num_bytes + RecordedBytes(Tail(hashes))

\* By how much bytes_written exceeds the sum of the recorded num_bytes.
Excess(self) == self.bytes_written - RecordedBytes(self.hashes)

\* The step is a write by manifest m (write_file, write_json_file or
\* write_manifest), or a successful merge_from by m.
WriteStepOf(m) ==
    /\ nops' = nops + 1
    /\ ret'.op \in {"write_file", "write_manifest"}
    /\ ret'.self = m

MergeStepOf(m) ==
    /\ nops' = nops + 1
    /\ ret'.op = "merge_from"
    /\ ret'.self = m
    /\ ret'.raised = ""

\* The names that self and other of a merge_from step both hold.
SharedNames(m) == DictKeys(mans[m].hashes) \cap DictKeys(mans[ret'.other].hashes)

(* C23 as stated: bytes_written is at least the sum of num_bytes over the  *)
(* recorded entries, and equals it exactly when no logical name was        *)
(* written more than once and every merge was between manifests with       *)
(* disjoint name sets: a write of a new name and a merge of disjoint        *)
(* manifests add nothing to the difference, a write of a name already       *)
(* recorded and a merge of manifests that share a name leave it positive.   *)
C23_BytesWrittenExactIffNoRepeat ==
    [][\A m \in ManifestIds :
          /\ Excess(mans'[m]) >= 0
          /\ (WriteStepOf(m) /\ ret'.prior = None)
                => Excess(mans'[m]) = Excess(mans[m])
          /\ (MergeStepOf(m) /\ SharedNames(m) = {})
                => Excess(mans'[m]) = Excess(mans[m]) + Excess(mans[ret'.other])
          /\ (WriteStepOf(m) /\ ret'.prior # None) => Excess(mans'[m]) > 0
          /\ (MergeStepOf(m) /\ SharedNames(m) # {}) => Excess(mans'[m]) > 0]_vars

\* What a step adds to the difference of manifest m: the num_bytes of the
\* entry a write replaces, or what other brings to a merge and the num_bytes
\* of the names both hold.
ExcessAdded(m) ==
    IF WriteStepOf(m)
    THEN IF ret'.prior = None THEN 0 ELSE Get(ret'.prior).num_bytes
    ELSE IF MergeStepOf(m)
    THEN Excess(mans[ret'.other])
         + RecordedBytes(SelectSeq(mans[m].hashes,
                                   LAMBDA e : e.key \in SharedNames(m)))
    ELSE 0

(* C23 amended: bytes_written is at least the sum of num_bytes over the    *)
(* recorded entries. A fresh manifest has difference 0; a write adds to the *)
(* difference the num_bytes of the entry it replaces, if any; a successful  *)
(* merge adds the difference of other and the num_bytes of the names both   *)
(* manifests hold; nothing else changes it. The two are thus equal when no  *)
(* name was written more than once and every merge was disjoint, and also   *)
(* when every replaced or shared entry is of an empty file.                 *)
C23_BytesWrittenExcess ==
    [][\A m \in ManifestIds :
          /\ nops = 0 => Excess(mans[m]) = 0
          /\ Excess(mans'[m]) >= 0
          /\ Excess(mans'[m]) = Excess(mans[m]) + ExcessAdded(m)]_vars

\* An empty file was written a second time, and bytes_written still equals
\* the sum of the recorded num_bytes, which is not 0.
C23_Witness ==
    /\ ret.op = "write_file"
    /\ ret.prior # None
    /\ Get(ret.prior).num_bytes = 0
    /\ Excess(mans[ret.self]) = 0
    /\ mans[ret.self].bytes_written > 0

(* C24: merge_from is all-or-nothing: when it fails, on different roots or *)
(* on disagreeing entries for a shared name, self.hashes and                *)
(* self.bytes_written are as before the call, with no entry of other        *)
(* copied in; and whether it succeeds or fails, the hashes and the          *)
(* bytes_written of other are unchanged.                                    *)
C24_MergeAllOrNothing ==
    [][(nops' = nops + 1 /\ ret'.op = "merge_from") =>
          /\ mans'[ret'.other] = mans[ret'.other]
          /\ ret'.raised # "" => mans'[ret'.self] = mans[ret'.self]
          /\ \A m \in ManifestIds \ {ret'.self} : mans'[m] = mans[m]]_vars

\* A merge failed on a shared name with disagreeing entries.
C24_Witness ==
    /\ ret.op = "merge_from"
    /\ ret.raised = "RuntimeError"
    /\ \E k \in DictKeys(mans[ret.self].hashes) \cap DictKeys(mans[ret.other].hashes) :
          DictGet(mans[ret.self].hashes, k) # DictGet(mans[ret.other].hashes, k)

(* C25: for a manifest that is the only writer to its root, after any      *)
(* sequence of write_file, write_json_file and write_manifest calls,        *)
(* read_file of every logical name recorded in hashes succeeds and returns  *)
(* the contents most recently written under that name.                      *)
C25_ReadsBackWhatItWrote ==
    (ret.op = "read_file" /\ run.pc = "done") =>
        /\ ret.raised = ""
        /\ ret.value = ret.text

(* C26: for every root directory, of one segment or nested, every file     *)
(* name and every list of subdirectories,                                   *)
(* path_to_manifest_name(root, compose_filename(root, file_name,            *)
(* subdirectories)) equals compose_manifest_name(file_name, subdirectories): *)
(* read_file looks up the logical name under which write_file recorded the  *)
(* file, and its root-directory assertion never fails.                      *)
C26_PathNameIsManifestName ==
    ret.op = "path_to_manifest_name" =>
        /\ ret.raised = ""
        /\ ret.value = Some(compose_manifest_name(ret.file_name, ret.subdirectories))

(* C27: for every file name and list of subdirectories, with segments free *)
(* of "|", manifest_name_to_filename(compose_manifest_name(file_name,       *)
(* subdirectories)) is the path whose components are exactly the            *)
(* subdirectories followed by the file name; no component holds the whole   *)
(* "|"-joined manifest name.                                                *)
C27_NameToFilenameIsLocalPath ==
    ret.op = "manifest_name_to_filename" =>
        /\ Get(ret.value) = SubdirList(ret.subdirectories) \o <<ret.file_name>>
        /\ (SubdirList(ret.subdirectories) # << >>) =>
              compose_manifest_name(ret.file_name, ret.subdirectories)
                 \notin Range(Get(ret.value))

\* The cell holds CONTEST_NOT_ON_BALLOT or is empty.
IsNullCell(cell) == cell.nan \/ cell.str = <<"CONTEST_NOT_ON_BALLOT">>

(* C21: in every ArloSampledBallot built from a row, a cell that holds     *)
(* CONTEST_NOT_ON_BALLOT or is empty is stored as null in the per-contest   *)
(* dictionary it belongs to: audit_result, cvr_result and discrepancy       *)
(* alike.                                                                   *)
C21_NullCellsStoredAsNull ==
    ret.op = "ArloSampledBallot" =>
        LET row == run.input
            b == Get(ret.value)
        IN  \A j \in 1..Len(row) :
                LET k == row[j].key
                    contest == StripVoteFor(Tail(k))
                IN  IsNullCell(row[j].value) =>
                        /\ startswith(k, audit_result_)
                              => DictGet(b.audit_result, contest) = None
                        /\ startswith(k, cvr_result_)
                              => DictGet(b.cvr_result, contest) = None
                        /\ startswith(k, discrepancy_)
                              => DictGet(b.discrepancy, contest) = None

\* The lines the code parses are those of the SAMPLED BALLOTS section.
ParsesItsSection(lines) ==
    /\ FindHeader(lines) # -1
    /\ SubSeq(lines, FindHeader(lines) + 2, Len(lines)) = SectionLines(lines)

(* C22: rows of the SAMPLED BALLOTS section whose Audited? column is not   *)
(* the literal AUDITED are skipped: the list returned by                    *)
(* arlo_audit_report_to_results holds an ArloSampledBallot for a row only   *)
(* if the row's Audited? value is AUDITED.                                  *)
C22_OnlyAuditedRows ==
    (/\ ret.op = "arlo_audit_report_to_results"
     /\ ret.value # None
     /\ ParsesItsSection(run.input.lines)) =>
        \A b \in Range(Get(ret.value)) :
            /\ DictHas(b.metadata, <<"Audited?">>)
            /\ DictGet(b.metadata, <<"Audited?">>) = Some(<<"AUDITED">>)

(* C18: all_hashes_unique() returns True if and only if no two logical     *)
(* names in the manifest are recorded with the same hash value (True for   *)
(* the empty manifest), and it never changes the manifest.                 *)
C18_AllHashesUniqueIffNoDuplicate ==
    [][ret'.op = "all_hashes_unique" =>
         LET self == mans[ret'.self]
             names == DictKeys(self.hashes)
         IN  /\ ret'.value =
                   Some(\A k1, k2 \in names :
                           k1 # k2 => DictGet(self.hashes, k1).hash
                                        # DictGet(self.hashes, k2).hash)
             /\ mans' = mans
             /\ files' = files]_vars

\* all_hashes_unique has returned False: two names hold the same contents.
C18_Witness ==
    /\ ret.op = "all_hashes_unique"
    /\ ret.value = Some(FALSE)
    /\ Len(mans[ret.self].hashes) = 2

\* ballots|<first four characters of id>|<id>.json
BallotLogicalName(id) ==
    <<"ballots", "|">>
    \o [i \in 1..(IF Len(id) < 4 THEN Len(id) ELSE 4) |-> id[i]]
    \o <<"|">> \o id \o <<".json">>

\* The ballot most recently written under an identifier, if any.
LastWritten(ballots, id) ==
    LET at == {i \in 1..Len(ballots) : ballots[i].name = id}
    IN  IF at = {} THEN None
        ELSE Some(ballots[CHOOSE i \in at : \A j \in at : j <= i])

C10_SealedIsFrozen ==
    [][(/\ ret.op = "write_manifest"
        /\ nops' = nops + 1
        /\ ret'.op \in {"write_file", "merge_from", "write_manifest"}
        /\ ret'.self = ret.self)
       => /\ ret'.raised # ""
          /\ mans'[ret.self] = mans[ret.self]
          /\ files' = files]_vars

====
